---- MODULE Spec2Model ----
(***************************************************************************)
(* Mission Control: missions, tasks and blocker -> blocked dependencies    *)
(* kept in a transactional store (MissionStore) and driven by the          *)
(* orchestrator (MissionManager).                                          *)
(*                                                                         *)
(* Spec      the five orchestrator operations, each call one atomic step   *)
(*           (one JavaScript turn; linkTasks and claimTask are one store   *)
(*           transaction).                                                 *)
(* SpecGraph linkTasks alone, over MaxChain tasks spread over the missions.*)
(* SpecRace  concurrent claimTask calls, each claim one store transaction. *)
(* SpecPar   concurrent claimTask calls under parallel execution: the      *)
(*           reads of a claim and its write are separate steps, and the    *)
(*           model adds no locking the code does not ask for.              *)
(*                                                                         *)
(* SpecQuery getReadyTasks alone, over stores whose rows differ in         *)
(*           priority, created_at, status and mission.                     *)
(* SpecFlow  the agents' loop over one mission: query the ready tasks,     *)
(*           claim, update the status.                                     *)
(* SpecMeta  updateTaskStatus and claimTask over rows whose metadata column*)
(*           holds any document, SQL NULL or text that is not JSON.        *)
(* SpecTx    runTransaction with callbacks that write and then throw.      *)
(* SpecCycle MissionStore.hasCycle and GraphEngine.validateNoCycle on the  *)
(*           same dependency relation.                                     *)
(* SpecCreate createMission and createTask alone, with repeated ids,       *)
(*           missing missions and priorities around the valid range.       *)
(* SpecRead  the three reads of the store over the rows of SpecMeta.       *)
(* SpecScope tasks of two missions and the three views of the orchestrator.*)
(* SpecTool  the mission_control handler with complete and partial         *)
(*           payloads.                                                     *)
(* SpecLink  concurrent linkTasks calls, each one store transaction.       *)
(* SpecLost  concurrent claimTask and updateTaskStatus calls; only the     *)
(*           first runs in a transaction.                                  *)
(* SpecValidator  validateNoCycle over any lookup, cyclic ones included.   *)
(* SpecSearch  the breadth-first loop of validateNoCycle, one iteration a  *)
(*           step.                                                         *)
(* SpecLoop  agents that repeat query, claim, complete, scheduled fairly.  *)
(*                                                                         *)
(* Agent ids are non-empty strings (the tool handler rejects an empty      *)
(* agent_id), so `task.assignee && ...` is a test for null.  A task row    *)
(* keeps the columns some operation reads: title, description,             *)
(* acceptance_criteria and updated_at are written and never read.  No      *)
(* operation of Spec reads a mission's title or created_at, so its         *)
(* missions are all created with one title at one instant; SpecCreate      *)
(* varies both.                                                            *)
(***************************************************************************)
EXTENDS Integers, FiniteSets, Sequences, TLC

\* ---------------------------------------------------------------- bounds
MaxTasks    == 2    \* task ids the id generator can hand out in Spec
MaxMissions == 2    \* mission ids callers use
MaxAgents   == 2    \* agents that claim tasks in Spec
MaxChain    == 4    \* tasks of SpecGraph
MaxRacers   == 3    \* concurrent claimants of SpecRace and SpecPar
MaxRows     == 3    \* task rows of SpecQuery
MaxInstant  == 2    \* instants of creation of the rows of SpecQuery
MaxStmts    == 2    \* statements of a transaction callback of SpecTx

TaskIds    == 1..MaxTasks
MissionIds == 1..MaxMissions
Agents     == 1..MaxAgents
ChainIds   == 1..MaxChain
Racers     == 1..MaxRacers
RowIds     == 1..MaxRows

\* ------------------------------------------------------- program constants
NULL == 0                       \* assignee: null (no agent holds the task)
DefaultPriority == 4            \* createTask(..., priority = 4)

TaskStatus == {"pending", "ready", "in_progress", "review",
               "completed", "failed", "blocked"}

\* metadata: a mapping from string keys to JSON values.
EmptyDoc == [k \in {} |-> ""]

\* The metadata column (TEXT, nullable): the text of a JSON document, SQL
\* NULL, or text JSON.parse rejects.  A null metadata argument of
\* updateTaskStatus is the NULL column value.
Json(doc) == [kind |-> "json", doc |-> doc]
NullColumn == [kind |-> "null", doc |-> EmptyDoc]
CorruptColumn == [kind |-> "corrupt", doc |-> EmptyDoc]

\* resultSummary: null (the default), or a string; the empty string is the
\* value JavaScript takes for false in `if (resultSummary)`.
NoSummary == "<null>"

VARIABLES
    missions,   \* missions table: id -> [status]
    tasks,      \* tasks table: id -> [mission_id, status, priority, assignee,
                \*                     created_at, metadata]
    deps,       \* dependencies table: set of [blocker_id, blocked_id, mission_id]
    last,       \* the last orchestrator call and what it returned or threw
    proc,       \* concurrent claimants: agent -> [task, pc, outcome, owner]
    tx          \* the open transaction of runTransaction: what the tables held
                \* at BEGIN and the statements of the callback still to run

vars == <<missions, tasks, deps, last, proc, tx>>

\* ------------------------------------------------------------ MissionStore
getMission(ms, id) == id \in DOMAIN ms

getTask(ts, id) == id \in DOMAIN ts

\* SELECT blocker_id FROM dependencies WHERE blocked_id = ?
getDependencies(ds, taskId) == {d.blocker_id : d \in {e \in ds : e.blocked_id = taskId}}

\* One round of the recursive member of the ancestors query: the blockers of
\* the rows found so far, until no new id appears.  (On the acyclic relations
\* the store holds, the rows of the UNION ALL query are exactly these ids.)
RECURSIVE ancestors(_, _)
ancestors(ds, found) ==
    LET more == UNION {getDependencies(ds, a) : a \in found}
    IN IF more \subseteq found THEN found ELSE ancestors(ds, found \cup more)

hasCycleNoSelf(ds, blockerId, blockedId) ==
    blockedId \in ancestors(ds, getDependencies(ds, blockerId))

\* SELECT blocked_id FROM dependencies WHERE blocker_id = ?
getDependents(ds, taskId) == {d.blocked_id : d \in {e \in ds : e.blocker_id = taskId}}

hasCycleDirectOnly(ds, blockerId, blockedId) ==
    \/ blockerId = blockedId
    \/ blockedId \in getDependencies(ds, blockerId)

hasCycleWrongWay(ds, blockerId, blockedId) ==
    \/ blockerId = blockedId
    \/ blockedId \in getDependents(ds, blockerId)

hasCycle(ds, blockerId, blockedId) ==
    \/ blockerId = blockedId
    \/ blockedId \in ancestors(ds, getDependencies(ds, blockerId))

safeParseLosesAll(column) == EmptyDoc

\* str ? JSON.parse(str) : {}, and {} when JSON.parse throws
safeParse(column) == IF column.kind = "json" THEN column.doc ELSE EmptyDoc

\* JSON.stringify(metadata)
stringify(doc) == Json(doc)

coalesceTakesPatch(patch, column) == patch

\* COALESCE($metadata, metadata)
coalesce(patch, column) == IF patch.kind = "null" THEN column ELSE patch

readyRowsIgnoreDeps(ts, ds, missionId) ==
    {t \in DOMAIN ts : ts[t].mission_id = missionId /\ ts[t].status = "pending"}

readyRowsNoBlockers(ts, ds, missionId) ==
    {t \in DOMAIN ts :
        /\ ts[t].mission_id = missionId
        /\ ts[t].status = "pending"
        /\ ~\E d \in ds : d.blocked_id = t}

\* WHERE t.mission_id = $missionId AND t.status = 'pending' AND NOT EXISTS
\*   (SELECT 1 FROM dependencies d JOIN tasks blocker ON d.blocker_id = blocker.id
\*    WHERE d.blocked_id = t.id AND blocker.status != 'completed')
readyRows(ts, ds, missionId) ==
    {t \in DOMAIN ts :
        /\ ts[t].mission_id = missionId
        /\ ts[t].status = "pending"
        /\ ~\E d \in ds : /\ d.blocked_id = t
                          /\ d.blocker_id \in DOMAIN ts
                          /\ ts[d.blocker_id].status # "completed"}

orderedBeforePriorityOnly(ts, a, b) == ts[a].priority < ts[b].priority

\* ORDER BY t.priority ASC, t.created_at ASC: a comes strictly before b.
orderedBefore(ts, a, b) ==
    \/ ts[a].priority < ts[b].priority
    \/ ts[a].priority = ts[b].priority /\ ts[a].created_at < ts[b].created_at

\* The orders the engine can give the rows: every arrangement of them in
\* which no row comes after one it is strictly before (rows equal in both
\* keys come in either order).
sortedRows(ts, rows) ==
    {s \in [1..Cardinality(rows) -> rows] :
        /\ \A i \in DOMAIN s, j \in DOMAIN s : i # j => s[i] # s[j]
        /\ \A i \in DOMAIN s, j \in DOMAIN s : i < j => ~orderedBefore(ts, s[j], s[i])}

\* LIMIT $limit: a negative limit is no limit.
limitRows(s, limit) ==
    IF limit < 0 \/ limit >= Len(s) THEN s ELSE SubSeq(s, 1, limit)

\* tasks.map(t => ({ ...t, metadata: this.safeParse(t.metadata) }))
taskOf(ts, t) == [id |-> t, mission_id |-> ts[t].mission_id, status |-> ts[t].status,
                  metadata |-> safeParse(ts[t].metadata)]

\* The lists getReadyTasks(missionId, limit) can return.
getReadyTasks(ts, ds, missionId, limit) ==
    {[i \in DOMAIN limitRows(s, limit) |-> taskOf(ts, limitRows(s, limit)[i])] :
        s \in sortedRows(ts, readyRows(ts, ds, missionId))}

\* A SELECT without ORDER BY returns its rows in an order the engine picks.
anyOrder(rows) ==
    {s \in [1..Cardinality(rows) -> rows] :
        \A i \in DOMAIN s, j \in DOMAIN s : i # j => s[i] # s[j]}

getTasksOfAnyMission(ts, missionId) ==
    {[i \in DOMAIN s |-> taskOf(ts, s[i])] : s \in anyOrder(DOMAIN ts)}

\* SELECT * FROM tasks WHERE mission_id = ?, each row through safeParse.
getTasksByMission(ts, missionId) ==
    {[i \in DOMAIN s |-> taskOf(ts, s[i])] :
        s \in anyOrder({t \in DOMAIN ts : ts[t].mission_id = missionId})}

\* SELECT * FROM tasks WHERE id = ?: the task, or null (the empty list here).
readTask(ts, id) == IF getTask(ts, id) THEN <<taskOf(ts, id)>> ELSE << >>

storeUpdateEveryRow(ts, id, status, assignee, metadata) ==
    [t \in DOMAIN ts |->
        [ts[t] EXCEPT !.status = status, !.assignee = assignee,
                      !.metadata = coalesce(metadata, ts[t].metadata)]]

\* UPDATE tasks SET status = $status, assignee = $assignee,
\*   metadata = COALESCE($metadata, metadata) WHERE id = $id
storeUpdateTaskStatus(ts, id, status, assignee, metadata) ==
    [ts EXCEPT ![id].status = status, ![id].assignee = assignee,
               ![id].metadata = coalesce(metadata, ts[id].metadata)]

dependencyExistsNever(ds, blockerId, blockedId) == FALSE

\* INSERT INTO dependencies: the primary key (blocker_id, blocked_id) rejects
\* a second row for the same ordered pair.
dependencyExists(ds, blockerId, blockedId) ==
    \E d \in ds : d.blocker_id = blockerId /\ d.blocked_id = blockedId

\* ---------------------------------------------------------- call records
\* summary, limit, result and priority are filled in by the calls that have
\* them; was and held are the status and the assignee claimTask read from the
\* row; named is the id a TaskNotFoundError carries.
Call(op, task, other, agent, status, outcome, owner) ==
    [op |-> op, task |-> task, other |-> other, agent |-> agent,
     status |-> status, outcome |-> outcome, owner |-> owner,
     summary |-> NoSummary, limit |-> 0, result |-> << >>,
     was |-> "", held |-> 0, priority |-> 0, named |-> 0]

NoCall == Call("none", 0, 0, 0, "", "ok", 0)

\* No transaction has run yet.  (After COMMIT or ROLLBACK tx keeps what the
\* transaction was, with open = FALSE.)
NoTx == [open |-> FALSE,
         saved |-> [missions |-> << >>, tasks |-> << >>, deps |-> {}],
         done |-> << >>,
         todo |-> << >>]

Idle == [a \in Racers |-> [task |-> 0, pc |-> "idle", outcome |-> "", owner |-> 0]]

\* ---------------------------------------------------------- MissionManager
\* { id, title, status: 'active', created_at: new Date().toISOString() }
MissionRow(title, now) == [title |-> title, status |-> "active", created_at |-> now]

CreateMissionOverwrite(id, title, now) ==
    /\ missions' = [m \in DOMAIN missions \cup {id} |->
                      IF m = id THEN MissionRow(title, now) ELSE missions[m]]
    /\ last' = Call("createMission", 0, id, 0, "", "ok", 0)
    /\ UNCHANGED <<tasks, deps, proc, tx>>

CreateMission(id, title, now) ==
    /\ IF getMission(missions, id)
         THEN /\ last' = Call("createMission", 0, id, 0, "", "InvalidOperationError", 0)
              /\ UNCHANGED missions
         ELSE /\ missions' = [m \in DOMAIN missions \cup {id} |->
                                IF m = id THEN MissionRow(title, now) ELSE missions[m]]
              /\ last' = Call("createMission", 0, id, 0, "", "ok", 0)
    /\ UNCHANGED <<tasks, deps, proc, tx>>

\* The missions table after createMission(m, "Project 1") for every mission id.
AllMissions == [m \in MissionIds |-> MissionRow("Project 1", 1)]

validPriorityNoMaximum(priority) == priority >= 0

\* TaskPrioritySchema: z.number().min(0).max(4)
validPriority(priority) == priority >= 0 /\ priority <= 4

\* new Date().toISOString(): the clock reads the instant of the latest row
\* again (same millisecond) or a later one.  ISO strings of one length
\* compare as their instants do, so an instant is a number.
Latest(ts) == IF DOMAIN ts = {} THEN 0
              ELSE CHOOSE n \in {ts[t].created_at : t \in DOMAIN ts} :
                       \A t \in DOMAIN ts : ts[t].created_at <= n

Clock(ts) == {n \in {Latest(ts), Latest(ts) + 1} : n >= 1}

CreateTaskNoMission(missionId, id, priority, now) ==
    /\ id \notin DOMAIN tasks
    /\ IF ~validPriority(priority)
         THEN /\ last' = [Call("createTask", 0, missionId, 0, "", "ZodError", 0)
                          EXCEPT !.priority = priority]
              /\ UNCHANGED tasks
         ELSE /\ tasks' = [t \in DOMAIN tasks \cup {id} |->
                             IF t = id
                               THEN [mission_id |-> missionId, status |-> "pending",
                                     priority |-> priority, assignee |-> NULL,
                                     created_at |-> now,
                                     metadata |-> stringify(EmptyDoc)]
                               ELSE tasks[t]]
              /\ last' = [Call("createTask", id, missionId, 0, "", "ok", 0)
                          EXCEPT !.priority = priority]
    /\ UNCHANGED <<missions, deps, proc, tx>>

\* id is what generateSmartId returns: an id no task has yet.
CreateTask(missionId, id, priority, now) ==
    /\ id \notin DOMAIN tasks
    /\ IF ~validPriority(priority)
         THEN /\ last' = [Call("createTask", 0, missionId, 0, "", "ZodError", 0)
                          EXCEPT !.priority = priority]
              /\ UNCHANGED tasks
         ELSE IF ~getMission(missions, missionId)
         THEN /\ last' = [Call("createTask", 0, missionId, 0, "", "MissionNotFoundError", 0)
                          EXCEPT !.priority = priority]
              /\ UNCHANGED tasks
         ELSE /\ tasks' = [t \in DOMAIN tasks \cup {id} |->
                             IF t = id
                               THEN [mission_id |-> missionId, status |-> "pending",
                                     priority |-> priority, assignee |-> NULL,
                                     created_at |-> now,
                                     metadata |-> stringify(EmptyDoc)]
                               ELSE tasks[t]]
              /\ last' = [Call("createTask", id, missionId, 0, "", "ok", 0)
                          EXCEPT !.priority = priority]
    /\ UNCHANGED <<missions, deps, proc, tx>>

linkOutcomeNoMission(ts, ds, blockerId, blockedId) ==
    IF ~getTask(ts, blockerId) \/ ~getTask(ts, blockedId) THEN "TaskNotFoundError"
    ELSE IF hasCycle(ds, blockerId, blockedId) THEN "CycleDetectedError"
    ELSE IF dependencyExists(ds, blockerId, blockedId) THEN "ConstraintError"
    ELSE "ok"

\* The outcome of the checks of linkTasks, in the order the code makes them.
linkOutcomeNoCycle(ts, ds, blockerId, blockedId) ==
    IF ~getTask(ts, blockerId) \/ ~getTask(ts, blockedId) THEN "TaskNotFoundError"
    ELSE IF ts[blockerId].mission_id # ts[blockedId].mission_id THEN "InvalidOperationError"
    ELSE IF dependencyExists(ds, blockerId, blockedId) THEN "ConstraintError"
    ELSE "ok"

linkOutcome(ts, ds, blockerId, blockedId) ==
    IF ~getTask(ts, blockerId) \/ ~getTask(ts, blockedId) THEN "TaskNotFoundError"
    ELSE IF ts[blockerId].mission_id # ts[blockedId].mission_id THEN "InvalidOperationError"
    ELSE IF hasCycle(ds, blockerId, blockedId) THEN "CycleDetectedError"
    ELSE IF dependencyExists(ds, blockerId, blockedId) THEN "ConstraintError"
    ELSE "ok"

newDependencyFirstMission(ts, blockerId, blockedId) ==
    [blocker_id |-> blockerId, blocked_id |-> blockedId, mission_id |-> 1]

\* { blocker_id: blockerId, blocked_id: blockedId, mission_id: blocker.mission_id }
newDependency(ts, blockerId, blockedId) ==
    [blocker_id |-> blockerId, blocked_id |-> blockedId,
     mission_id |-> ts[blockerId].mission_id]

linkNamedAlwaysBlocker(ts, blockerId, blockedId) ==
    IF ~getTask(ts, blockerId) \/ ~getTask(ts, blockedId) THEN blockerId ELSE 0

\* throw new TaskNotFoundError(blockerId), else new TaskNotFoundError(blockedId)
linkNamed(ts, blockerId, blockedId) ==
    IF ~getTask(ts, blockerId) THEN blockerId
    ELSE IF ~getTask(ts, blockedId) THEN blockedId
    ELSE 0

LinkTasks(blockerId, blockedId) ==
    LET out == linkOutcome(tasks, deps, blockerId, blockedId) IN
    /\ last' = [Call("linkTasks", blockerId, blockedId, 0, "", out, 0)
                EXCEPT !.named = linkNamed(tasks, blockerId, blockedId)]
    /\ deps' = IF out = "ok"
                 THEN deps \cup {newDependency(tasks, blockerId, blockedId)}
                 ELSE deps
    /\ UNCHANGED <<missions, tasks, proc, tx>>

isBlockedByAnyBlocker(ts, ds, taskId) ==
    \E b \in getDependencies(ds, taskId) : getTask(ts, b)

isBlockedPendingOnly(ts, ds, taskId) ==
    \E b \in getDependencies(ds, taskId) : getTask(ts, b) /\ ts[b].status = "pending"

\* for (const blockerId of blockers) if (blocker && blocker.status !== 'completed') throw
isBlocked(ts, ds, taskId) ==
    \E b \in getDependencies(ds, taskId) : getTask(ts, b) /\ ts[b].status # "completed"

claimOutcomeNoCompleted(ts, ds, taskId, agentId) ==
    IF ~getTask(ts, taskId) THEN "TaskNotFoundError"
    ELSE IF isBlocked(ts, ds, taskId) THEN "InvalidOperationError"
    ELSE IF ts[taskId].assignee # NULL /\ ts[taskId].assignee # agentId THEN "TaskLockedError"
    ELSE "ok"

claimOutcomeNoLock(ts, ds, taskId, agentId) ==
    IF ~getTask(ts, taskId) THEN "TaskNotFoundError"
    ELSE IF isBlocked(ts, ds, taskId) THEN "InvalidOperationError"
    ELSE IF ts[taskId].status = "completed" THEN "InvalidOperationError"
    ELSE "ok"

claimOutcomeCompletedFirst(ts, ds, taskId, agentId) ==
    IF ~getTask(ts, taskId) THEN "TaskNotFoundError"
    ELSE IF isBlocked(ts, ds, taskId) THEN "InvalidOperationError"
    ELSE IF ts[taskId].status = "completed" THEN "InvalidOperationError"
    ELSE IF ts[taskId].assignee # NULL /\ ts[taskId].assignee # agentId THEN "TaskLockedError"
    ELSE "ok"

claimOutcomeNoBlock(ts, ds, taskId, agentId) ==
    IF ~getTask(ts, taskId) THEN "TaskNotFoundError"
    ELSE IF ts[taskId].assignee # NULL /\ ts[taskId].assignee # agentId THEN "TaskLockedError"
    ELSE IF ts[taskId].status = "completed" THEN "InvalidOperationError"
    ELSE "ok"

\* The outcome of the checks of claimTask, in the order the code makes them.
claimOutcomeLockInProgressOnly(ts, ds, taskId, agentId) ==
    IF ~getTask(ts, taskId) THEN "TaskNotFoundError"
    ELSE IF isBlocked(ts, ds, taskId) THEN "InvalidOperationError"
    ELSE IF ts[taskId].status = "in_progress"
            /\ ts[taskId].assignee # NULL /\ ts[taskId].assignee # agentId
         THEN "TaskLockedError"
    ELSE IF ts[taskId].status = "completed" THEN "InvalidOperationError"
    ELSE "ok"

claimOutcome(ts, ds, taskId, agentId) ==
    IF ~getTask(ts, taskId) THEN "TaskNotFoundError"
    ELSE IF isBlocked(ts, ds, taskId) THEN "InvalidOperationError"
    ELSE IF ts[taskId].assignee # NULL /\ ts[taskId].assignee # agentId THEN "TaskLockedError"
    ELSE IF ts[taskId].status = "completed" THEN "InvalidOperationError"
    ELSE "ok"

\* new TaskLockedError(taskId, task.assignee)
claimOwner(ts, ds, taskId, agentId) ==
    IF claimOutcome(ts, ds, taskId, agentId) = "TaskLockedError" THEN ts[taskId].assignee ELSE NULL

\* The tasks table after the claim transaction: the update committed, or
\* nothing written when a check threw.
claimCommitToReady(ts, ds, taskId, agentId) ==
    IF claimOutcome(ts, ds, taskId, agentId) = "ok"
      THEN storeUpdateTaskStatus(ts, taskId, "ready", agentId, NullColumn)
      ELSE ts

claimCommit(ts, ds, taskId, agentId) ==
    IF claimOutcome(ts, ds, taskId, agentId) = "ok"
      THEN storeUpdateTaskStatus(ts, taskId, "in_progress", agentId, NullColumn)
      ELSE ts

\* const task = this.store.getTask(taskId), and what the call then does.
claimCall(ts, ds, taskId, agentId) ==
    [Call("claimTask", taskId, 0, agentId, "",
          claimOutcome(ts, ds, taskId, agentId), claimOwner(ts, ds, taskId, agentId))
     EXCEPT !.was = IF getTask(ts, taskId) THEN ts[taskId].status ELSE "",
            !.held = IF getTask(ts, taskId) THEN ts[taskId].assignee ELSE NULL,
            !.named = IF getTask(ts, taskId) THEN 0 ELSE taskId]

ClaimTask(taskId, agentId) ==
    /\ last' = claimCall(tasks, deps, taskId, agentId)
    /\ tasks' = claimCommit(tasks, deps, taskId, agentId)
    /\ UNCHANGED <<missions, deps, proc, tx>>

targetAssigneeAlwaysNull(task, status) == NULL

targetAssigneeKept(task, status) == task.assignee

targetAssigneePendingOnly(task, status) ==
    IF status = "pending" THEN NULL ELSE task.assignee

\* let targetAssignee = task.assignee; if (pending || ready) targetAssignee = null
targetAssignee(task, status) ==
    IF status \in {"pending", "ready"} THEN NULL ELSE task.assignee

withSummaryOnly(doc, resultSummary) ==
    [k \in {"result_summary"} |-> resultSummary]

\* { ...task.metadata, result_summary: resultSummary }
withSummary(doc, resultSummary) ==
    [k \in DOMAIN doc \cup {"result_summary"} |->
        IF k = "result_summary" THEN resultSummary ELSE doc[k]]

\* if (resultSummary) metadataString = JSON.stringify(newMetadata); else null.
\* task.metadata is what getTask parsed from the column.
metadataString(task, resultSummary) ==
    IF resultSummary \in {NoSummary, ""}
      THEN NullColumn
      ELSE stringify(withSummary(safeParse(task.metadata), resultSummary))

UpdateTaskStatus(taskId, status, resultSummary) ==
    /\ IF ~getTask(tasks, taskId)
         THEN /\ last' = [Call("updateTaskStatus", taskId, 0, 0, status,
                               "TaskNotFoundError", 0)
                          EXCEPT !.summary = resultSummary, !.named = taskId]
              /\ UNCHANGED tasks
         ELSE /\ tasks' = storeUpdateTaskStatus(tasks, taskId, status,
                                                targetAssignee(tasks[taskId], status),
                                                metadataString(tasks[taskId], resultSummary))
              /\ last' = [Call("updateTaskStatus", taskId, 0, 0, status, "ok", 0)
                          EXCEPT !.summary = resultSummary]
    /\ UNCHANGED <<missions, deps, proc, tx>>

GetReadyTasks(missionId, limit) ==
    /\ \E r \in getReadyTasks(tasks, deps, missionId, limit) :
          last' = [Call("getReadyTasks", 0, missionId, 0, "", "ok", 0)
                   EXCEPT !.limit = limit, !.result = r]
    /\ UNCHANGED <<missions, tasks, deps, proc, tx>>

\* return this.store.getTasksByMission(missionId)
getAllTasks(ts, missionId) == getTasksByMission(ts, missionId)

isActive(t) == t.status = "in_progress"

\* this.getAllTasks(missionId).filter(t => t.status === 'in_progress')
getActiveTasks(ts, missionId) ==
    {SelectSeq(r, isActive) : r \in getAllTasks(ts, missionId)}

GetAllTasks(missionId) ==
    /\ \E r \in getAllTasks(tasks, missionId) :
          last' = [Call("getAllTasks", 0, missionId, 0, "", "ok", 0) EXCEPT !.result = r]
    /\ UNCHANGED <<missions, tasks, deps, proc, tx>>

GetActiveTasks(missionId) ==
    /\ \E r \in getActiveTasks(tasks, missionId) :
          last' = [Call("getActiveTasks", 0, missionId, 0, "", "ok", 0) EXCEPT !.result = r]
    /\ UNCHANGED <<missions, tasks, deps, proc, tx>>

GetTask(id) ==
    /\ last' = [Call("getTask", id, 0, 0, "", "ok", 0) EXCEPT !.result = readTask(tasks, id)]
    /\ UNCHANGED <<missions, tasks, deps, proc, tx>>

GetTasksByMission(missionId) ==
    /\ \E r \in getTasksByMission(tasks, missionId) :
          last' = [Call("getTasksByMission", 0, missionId, 0, "", "ok", 0)
                   EXCEPT !.result = r]
    /\ UNCHANGED <<missions, tasks, deps, proc, tx>>

\* ------------------------------------------------------ mission_control tool
\* A payload is a record that has the fields the caller sent and no others.
has(payload, field) == field \in DOMAIN payload

\* getContextMissionId(): one id for one working directory.
ContextMission == 1

DefaultLimit == 50

\* payload.priority || 4: an absent priority and the priority 0 are both falsy.
priorityOr4(payload) ==
    IF has(payload, "priority") /\ payload.priority # 0
      THEN payload.priority ELSE DefaultPriority

\* payload.limit || 50
limitOr50(payload) ==
    IF has(payload, "limit") /\ payload.limit # 0 THEN payload.limit ELSE DefaultLimit

\* payload.view || "ready"
viewOrReady(payload) == IF has(payload, "view") THEN payload.view ELSE "ready"

\* payload[field], or NULL for a field the payload does not have.
field(payload, name) == IF has(payload, name) THEN payload[name] ELSE NULL

\* throw new Error("... required ..."): the handler stops before the manager.
\* The call record keeps the command and the ids the payload did hold.
ToolError(command, payload) ==
    /\ last' = Call(command, field(payload, "task_id"), field(payload, "target_task_id"),
                    field(payload, "agent_id"), "", "Error", 0)
    /\ UNCHANGED <<missions, tasks, deps, proc, tx>>

\* case "create"; id and now as in CreateTask.
ToolCreate(payload, id, now) ==
    IF ~has(payload, "title")
      THEN ToolError("create", payload)
      ELSE /\ CreateTask(ContextMission, id, priorityOr4(payload), now)

\* case "update"
ToolUpdate(payload) ==
    IF ~has(payload, "task_id") \/ ~has(payload, "status")
      THEN ToolError("update", payload)
      ELSE UpdateTaskStatus(payload.task_id, payload.status,
                            IF has(payload, "result_summary")
                              THEN payload.result_summary ELSE NoSummary)

\* case "link"
ToolLink(payload) ==
    IF ~has(payload, "task_id") \/ ~has(payload, "target_task_id")
      THEN ToolError("link", payload)
      ELSE LinkTasks(payload.task_id, payload.target_task_id)

\* case "claim"
ToolClaim(payload) ==
    IF ~has(payload, "task_id") \/ ~has(payload, "agent_id")
      THEN ToolError("claim", payload)
      ELSE ClaimTask(payload.task_id, payload.agent_id)

\* case "query"
ToolQuery(payload) ==
    IF viewOrReady(payload) = "ready" THEN GetReadyTasks(ContextMission, limitOr50(payload))
    ELSE IF viewOrReady(payload) = "all" THEN GetAllTasks(ContextMission)
    ELSE GetActiveTasks(ContextMission)

\* ------------------------------------------------------------------- Spec
Init ==
    /\ missions = << >>
    /\ tasks = << >>
    /\ deps = {}
    /\ last = NoCall
    /\ tx = NoTx
    /\ proc = Idle

Next ==
    \/ \E id \in MissionIds : CreateMission(id, "Project 1", 1)
    \/ \E m \in MissionIds, id \in TaskIds, now \in Clock(tasks) :
          CreateTask(m, id, DefaultPriority, now)
    \/ \E a \in TaskIds, b \in TaskIds : LinkTasks(a, b)
    \/ \E t \in TaskIds, g \in Agents : ClaimTask(t, g)
    \/ \E t \in TaskIds, s \in TaskStatus : UpdateTaskStatus(t, s, NoSummary)

Spec == Init /\ [][Next]_vars

\* -------------------------------------------------------------- SpecGraph
\* The store after createMission for every mission id and createTask
\* MaxChain times: every task pending and unclaimed, no dependency yet.
InitGraph ==
    /\ missions = AllMissions
    /\ \E owner \in [ChainIds -> MissionIds] :
         tasks = [t \in ChainIds |->
                    [mission_id |-> owner[t], status |-> "pending",
                     priority |-> DefaultPriority, assignee |-> NULL,
                     created_at |-> t, metadata |-> stringify(EmptyDoc)]]
    /\ deps = {}
    /\ last = NoCall
    /\ tx = NoTx
    /\ proc = Idle

NextGraph == \E a \in ChainIds, b \in ChainIds : LinkTasks(a, b)

SpecGraph == InitGraph /\ [][NextGraph]_vars

\* --------------------------------------------------------------- SpecRace
\* A store the operations above can produce: one mission, MaxTasks tasks of
\* any status that nobody holds, any dependencies from a lower to a higher
\* id; every racer is about to call claimTask on a task of its choice.
ForwardEdges ==
    {[blocker_id |-> a, blocked_id |-> b, mission_id |-> 1] :
        <<a, b>> \in {p \in TaskIds \X TaskIds : p[1] < p[2]}}

InitRace ==
    /\ missions = AllMissions
    /\ \E st \in [TaskIds -> TaskStatus] :
         tasks = [t \in TaskIds |->
                    [mission_id |-> 1, status |-> st[t],
                     priority |-> DefaultPriority, assignee |-> NULL,
                     created_at |-> t, metadata |-> stringify(EmptyDoc)]]
    /\ deps \in SUBSET ForwardEdges
    /\ last = NoCall
    /\ tx = NoTx
    /\ \E target \in [Racers -> TaskIds] :
         proc = [a \in Racers |->
                   [task |-> target[a], pc |-> "ready", outcome |-> "", owner |-> 0]]

Done(a, outcome, owner) ==
    [proc EXCEPT ![a] = [task |-> proc[a].task, pc |-> "done",
                         outcome |-> outcome, owner |-> owner]]

\* claimTask as one store transaction: reads, checks and write in one step.
RaceClaim(a) ==
    /\ proc[a].pc = "ready"
    /\ tasks' = claimCommit(tasks, deps, proc[a].task, a)
    /\ proc' = Done(a, claimOutcome(tasks, deps, proc[a].task, a),
                       claimOwner(tasks, deps, proc[a].task, a))
    /\ last' = claimCall(tasks, deps, proc[a].task, a)
    /\ UNCHANGED <<missions, deps, tx>>

NextRace == \E a \in Racers : RaceClaim(a)

SpecRace == InitRace /\ [][NextRace]_vars

\* ---------------------------------------------------------------- SpecPar
\* Parallel execution of the claim callback by callers the store does not
\* serialise.  The callback itself takes no lock and compares nothing when
\* it writes: getTask, getDependencies and the checks run against what the
\* store holds when they read it ...
TxRead(a) ==
    /\ proc[a].pc = "ready"
    /\ IF claimOutcome(tasks, deps, proc[a].task, a) = "ok"
         THEN proc' = [proc EXCEPT ![a].pc = "write"]
         ELSE proc' = Done(a, claimOutcome(tasks, deps, proc[a].task, a),
                              claimOwner(tasks, deps, proc[a].task, a))
    /\ UNCHANGED <<missions, tasks, deps, last, tx>>

\* ... and updateTaskStatus(taskId, 'in_progress', agentId) then writes the
\* row whatever it holds by now (UPDATE ... WHERE id = $id).
TxWrite(a) ==
    /\ proc[a].pc = "write"
    /\ tasks' = storeUpdateTaskStatus(tasks, proc[a].task, "in_progress", a, NullColumn)
    /\ proc' = Done(a, "ok", NULL)
    /\ UNCHANGED <<missions, deps, last, tx>>

NextPar == \E a \in Racers : TxRead(a) \/ TxWrite(a)

SpecPar == InitRace /\ [][NextPar]_vars

\* -------------------------------------------------------------- SpecQuery
\* Stores createTask, updateTaskStatus and linkTasks can produce: MaxRows
\* tasks over the missions, each with a priority and an instant of creation,
\* pending, started or completed, and any dependencies between tasks of one
\* mission from a lower to a higher id.
QueryPriorities == {0, DefaultPriority}
Instants == 1..MaxInstant
QueryStatus == {"pending", "in_progress", "completed"}
Limits == -1..MaxRows

InitQuery ==
    /\ missions = AllMissions
    /\ \E owner \in [RowIds -> MissionIds], st \in [RowIds -> QueryStatus],
          pr \in [RowIds -> QueryPriorities], at \in [RowIds -> Instants] :
         /\ owner[1] = 1
         /\ tasks = [t \in RowIds |->
                       [mission_id |-> owner[t], status |-> st[t],
                        priority |-> pr[t], assignee |-> NULL,
                        created_at |-> at[t], metadata |-> stringify(EmptyDoc)]]
         /\ deps \in SUBSET {[blocker_id |-> a, blocked_id |-> b, mission_id |-> owner[a]] :
                                <<a, b>> \in {p \in RowIds \X RowIds :
                                                p[1] < p[2] /\ owner[p[1]] = owner[p[2]]}}
    /\ last = NoCall
    /\ tx = NoTx
    /\ proc = Idle

NextQuery == \E m \in MissionIds, n \in Limits : GetReadyTasks(m, n)

SpecQuery == InitQuery /\ [][NextQuery]_vars

\* --------------------------------------------------------------- SpecFlow
\* One mission with MaxRows tasks created one after the other, pending,
\* started or completed and held by nobody, with any dependencies from a
\* lower to a higher id; agents then query, claim and update.
InitFlow ==
    /\ missions = AllMissions
    /\ \E st \in [RowIds -> QueryStatus] :
         tasks = [t \in RowIds |->
                    [mission_id |-> 1, status |-> st[t],
                     priority |-> DefaultPriority, assignee |-> NULL,
                     created_at |-> t, metadata |-> stringify(EmptyDoc)]]
    /\ deps \in SUBSET {[blocker_id |-> a, blocked_id |-> b, mission_id |-> 1] :
                           <<a, b>> \in {p \in RowIds \X RowIds : p[1] < p[2]}}
    /\ last = NoCall
    /\ tx = NoTx
    /\ proc = Idle

NextFlow ==
    \/ \E n \in Limits : GetReadyTasks(1, n)
    \/ \E t \in RowIds, g \in Agents : ClaimTask(t, g)
    \/ \E t \in RowIds, st \in QueryStatus : UpdateTaskStatus(t, st, NoSummary)

SpecFlow == InitFlow /\ [][NextFlow]_vars

\* --------------------------------------------------------------- SpecMeta
\* Two pending tasks of one mission as store.createTask and the table allow
\* them: the metadata column of each holds a document over MetaKeys, SQL
\* NULL, or text that is not JSON.  Agents claim and update, with and without
\* a result summary.
MetaKeys == {"result_summary", "notes"}
MetaValues == {"old"}
Docs == UNION {[keys -> MetaValues] : keys \in SUBSET MetaKeys}
MetaColumns == {NullColumn, CorruptColumn} \cup {Json(doc) : doc \in Docs}
Summaries == {NoSummary, "", "done"}
MetaStatus == {"pending", "in_progress", "completed"}

InitMeta ==
    /\ missions = AllMissions
    /\ \E col \in [TaskIds -> MetaColumns] :
         tasks = [t \in TaskIds |->
                    [mission_id |-> 1, status |-> "pending",
                     priority |-> DefaultPriority, assignee |-> NULL,
                     created_at |-> t, metadata |-> col[t]]]
    /\ deps \in SUBSET ForwardEdges
    /\ last = NoCall
    /\ tx = NoTx
    /\ proc = Idle

NextMeta ==
    \/ \E t \in TaskIds, g \in Agents : ClaimTask(t, g)
    \/ \E t \in TaskIds, st \in MetaStatus, r \in Summaries : UpdateTaskStatus(t, st, r)

SpecMeta == InitMeta /\ [][NextMeta]_vars

\* ----------------------------------------------------------------- SpecTx
\* runTransaction(callback) is db.transaction(callback)(): BEGIN, the
\* callback, then COMMIT, or ROLLBACK and the exception thrown again when the
\* callback throws.  A callback is a list of statements: the body of the
\* callback of linkTasks or of claimTask, a store.updateTaskStatus, or a
\* throw.
Stmt(kind, a, b, status, agent) ==
    [kind |-> kind, a |-> a, b |-> b, status |-> status, agent |-> agent]

Stmts ==
    {Stmt("link", a, b, "", NULL) : a \in TaskIds, b \in TaskIds}
    \cup {Stmt("claim", t, 0, "", g) : t \in TaskIds, g \in Agents}
    \cup {Stmt("update", t, 0, "completed", NULL) : t \in TaskIds}
    \cup {Stmt("throw", 0, 0, "", NULL)}

Callbacks == UNION {[1..n -> Stmts] : n \in 1..MaxStmts}

Tables == [missions |-> missions, tasks |-> tasks, deps |-> deps]

\* What the statement throws on the tables st, or "ok".
stmtOutcome(st, c) ==
    CASE c.kind = "link" -> linkOutcome(st.tasks, st.deps, c.a, c.b)
      [] c.kind = "claim" -> claimOutcome(st.tasks, st.deps, c.a, c.agent)
      [] c.kind = "update" -> "ok"
      [] c.kind = "throw" -> "Error"

\* The tables after a statement that did not throw.
stmtWrites(st, c) ==
    CASE c.kind = "link" ->
           [st EXCEPT !.deps = st.deps \cup {newDependency(st.tasks, c.a, c.b)}]
      [] c.kind = "claim" ->
           [st EXCEPT !.tasks = claimCommit(st.tasks, st.deps, c.a, c.agent)]
      [] c.kind = "update" ->
           [st EXCEPT !.tasks = storeUpdateTaskStatus(st.tasks, c.a, c.status,
                                                      c.agent, NullColumn)]

rollbackKeepsWrites(saved, current) == current

\* ROLLBACK: the tables are again what they were at BEGIN.
rollback(saved, current) == saved

\* const transaction = this.db.transaction(callback); transaction() -- BEGIN
RunBegin(cb) ==
    /\ ~tx.open
    /\ tx' = [open |-> TRUE, saved |-> Tables, done |-> << >>, todo |-> cb]
    /\ UNCHANGED <<missions, tasks, deps, last, proc>>

\* The next statement of the callback: its writes, or its exception, which
\* rolls the transaction back and reaches the caller of runTransaction.
RunStep ==
    /\ tx.open
    /\ tx.todo # << >>
    /\ LET c == Head(tx.todo)
           out == stmtOutcome(Tables, c)
           after == IF out = "ok" THEN stmtWrites(Tables, c)
                                  ELSE rollback(tx.saved, Tables)
       IN /\ missions' = after.missions
          /\ tasks' = after.tasks
          /\ deps' = after.deps
          /\ IF out = "ok"
               THEN /\ tx' = [tx EXCEPT !.done = Append(tx.done, c),
                                        !.todo = Tail(tx.todo)]
                    /\ UNCHANGED last
               ELSE /\ tx' = [tx EXCEPT !.open = FALSE]
                    /\ last' = Call("runTransaction", c.a, c.b, c.agent, "", out, 0)
    /\ UNCHANGED proc

\* The callback returned: COMMIT.
RunCommit ==
    /\ tx.open
    /\ tx.todo = << >>
    /\ tx' = [tx EXCEPT !.open = FALSE]
    /\ last' = Call("runTransaction", 0, 0, 0, "", "ok", 0)
    /\ UNCHANGED <<missions, tasks, deps, proc>>

InitTx ==
    /\ missions = AllMissions
    /\ \E owner \in [TaskIds -> MissionIds] :
         tasks = [t \in TaskIds |->
                    [mission_id |-> owner[t], status |-> "pending",
                     priority |-> DefaultPriority, assignee |-> NULL,
                     created_at |-> t, metadata |-> stringify(EmptyDoc)]]
    /\ deps = {}
    /\ last = NoCall
    /\ tx = NoTx
    /\ proc = Idle

NextTx ==
    \/ \E cb \in Callbacks : RunBegin(cb)
    \/ RunStep
    \/ RunCommit

SpecTx == InitTx /\ [][NextTx]_vars

\* -------------------------------------------------------------- SpecCycle
\* The ids of a set in ascending order: the order in which the rows of
\* getDependencies are pushed on the queue.
RECURSIVE ascending(_)
ascending(ids) ==
    IF ids = {} THEN << >>
    ELSE LET least == CHOOSE n \in ids : \A m \in ids : n <= m
         IN <<least>> \o ascending(ids \ {least})

\* while (queue.length > 0): shift, skip a visited id, look up its parents,
\* throw on blockedId, push the parents not visited yet.
RECURSIVE search(_, _, _, _)
search(ds, visited, queue, blockedId) ==
    IF queue = << >> THEN "ok"
    ELSE IF Head(queue) \in visited THEN search(ds, visited, Tail(queue), blockedId)
    ELSE LET parents == getDependencies(ds, Head(queue))
             seen == visited \cup {Head(queue)}
         IN IF blockedId \in parents
              THEN "CycleDetectedError"
              ELSE search(ds, seen, Tail(queue) \o ascending(parents \ seen), blockedId)

\* The ids the loop passes to getDependencies, in the order of the calls.
RECURSIVE lookups(_, _, _, _)
lookups(ds, visited, queue, blockedId) ==
    IF queue = << >> THEN << >>
    ELSE IF Head(queue) \in visited THEN lookups(ds, visited, Tail(queue), blockedId)
    ELSE LET parents == getDependencies(ds, Head(queue))
             seen == visited \cup {Head(queue)}
         IN IF blockedId \in parents
              THEN <<Head(queue)>>
              ELSE <<Head(queue)>>
                     \o lookups(ds, seen, Tail(queue) \o ascending(parents \ seen), blockedId)

\* if (blockerId === blockedId) throw, before visited and queue exist.
validatorLookups(ds, blockerId, blockedId) ==
    IF blockerId = blockedId THEN << >>
    ELSE lookups(ds, {}, <<blockerId>>, blockedId)

validateNoCycleNoSelf(ds, blockerId, blockedId) ==
    search(ds, {}, <<blockerId>>, blockedId)

validateNoCycleDirectOnly(ds, blockerId, blockedId) ==
    IF blockerId = blockedId THEN "CycleDetectedError"
    ELSE IF blockedId \in getDependencies(ds, blockerId) THEN "CycleDetectedError"
    ELSE "ok"

\* GraphEngine.validateNoCycle with the store's getDependencies as lookup:
\* what it throws, or "ok" when it returns.
validateNoCycle(ds, blockerId, blockedId) ==
    IF blockerId = blockedId THEN "CycleDetectedError"
    ELSE search(ds, {}, <<blockerId>>, blockedId)

\* Both detectors asked about one pair on the relation the store holds.
CrossCheck(blockerId, blockedId) ==
    /\ last' = [Call("validateNoCycle", blockerId, blockedId, 0, "",
                      validateNoCycle(deps, blockerId, blockedId), 0)
                 EXCEPT !.result = <<hasCycle(deps, blockerId, blockedId)>>]
    /\ UNCHANGED <<missions, tasks, deps, proc, tx>>

\* One mission with MaxChain pending tasks and no dependency yet; linkTasks
\* then builds every acyclic relation over them.
InitCycle ==
    /\ missions = AllMissions
    /\ tasks = [t \in ChainIds |->
                  [mission_id |-> 1, status |-> "pending",
                   priority |-> DefaultPriority, assignee |-> NULL,
                   created_at |-> t, metadata |-> stringify(EmptyDoc)]]
    /\ deps = {}
    /\ last = NoCall
    /\ tx = NoTx
    /\ proc = Idle

NextCycle ==
    \/ \E a \in ChainIds, b \in ChainIds : LinkTasks(a, b)
    \/ \E a \in ChainIds, b \in ChainIds : CrossCheck(a, b)

SpecCycle == InitCycle /\ [][NextCycle]_vars

\* ---------------------------------------------------------- SpecValidator
\* validateNoCycle with any lookup over MaxRows ids: the lookup answers from
\* a relation that may hold cycles and self-loops, as a caller's function may.
AnyEdges ==
    {[blocker_id |-> a, blocked_id |-> b, mission_id |-> 1] : a \in RowIds, b \in RowIds}

InitValidator ==
    /\ missions = AllMissions
    /\ tasks = [t \in RowIds |->
                  [mission_id |-> 1, status |-> "pending",
                   priority |-> DefaultPriority, assignee |-> NULL,
                   created_at |-> t, metadata |-> stringify(EmptyDoc)]]
    /\ deps \in SUBSET AnyEdges
    /\ last = NoCall
    /\ tx = NoTx
    /\ proc = Idle

\* One call of the validator; result lists the ids it looked up.
Validate(blockerId, blockedId) ==
    /\ last' = [Call("validate", blockerId, blockedId, 0, "",
                      validateNoCycle(deps, blockerId, blockedId), 0)
                 EXCEPT !.result = validatorLookups(deps, blockerId, blockedId)]
    /\ UNCHANGED <<missions, tasks, deps, proc, tx>>

NextValidator == \E a \in RowIds, b \in RowIds : Validate(a, b)

SpecValidator == InitValidator /\ [][NextValidator]_vars

\* ------------------------------------------------------------- SpecSearch
\* One call of validateNoCycle, an iteration of its while loop a step.  The
\* lookup answers from any relation over MaxRows ids; the blocked id may be
\* one the relation does not know.  proc holds the locals of the call.
SearchIds == 1..(MaxRows + 1)

InitSearch ==
    /\ missions = AllMissions
    /\ tasks = [t \in RowIds |->
                  [mission_id |-> 1, status |-> "pending",
                   priority |-> DefaultPriority, assignee |-> NULL,
                   created_at |-> t, metadata |-> stringify(EmptyDoc)]]
    /\ deps \in SUBSET AnyEdges
    /\ last = NoCall
    /\ tx = NoTx
    /\ \E blockerId \in RowIds, blockedId \in SearchIds :
         proc = [pc |-> "start", blockerId |-> blockerId, blockedId |-> blockedId,
                 visited |-> {}, queue |-> << >>, expanded |-> << >>]

markVisitedNever(visited, currentId) == visited

\* visited.add(currentId)
markVisited(visited, currentId) == visited \cup {currentId}

\* if (blockerId === blockedId) throw; const visited = new Set(); queue = [blockerId]
SearchStart ==
    /\ proc.pc = "start"
    /\ proc' = IF proc.blockerId = proc.blockedId
                 THEN [proc EXCEPT !.pc = "thrown"]
                 ELSE [proc EXCEPT !.pc = "loop", !.queue = <<proc.blockerId>>]
    /\ UNCHANGED <<missions, tasks, deps, last, tx>>

\* const currentId = queue.shift(); if (visited.has(currentId)) continue
SearchSkip ==
    /\ proc.pc = "loop"
    /\ proc.queue # << >>
    /\ Head(proc.queue) \in proc.visited
    /\ proc' = [proc EXCEPT !.queue = Tail(proc.queue)]
    /\ UNCHANGED <<missions, tasks, deps, last, tx>>

\* visited.add(currentId); parents = getDependencies(currentId); throw on
\* blockedId, push the parents not visited.
SearchExpand ==
    /\ proc.pc = "loop"
    /\ proc.queue # << >>
    /\ Head(proc.queue) \notin proc.visited
    /\ LET currentId == Head(proc.queue)
           seen == markVisited(proc.visited, currentId)
           parents == getDependencies(deps, currentId)
       IN proc' = IF proc.blockedId \in parents
                    THEN [proc EXCEPT !.pc = "thrown", !.visited = seen,
                                      !.queue = Tail(proc.queue),
                                      !.expanded = Append(proc.expanded, currentId)]
                    ELSE [proc EXCEPT !.visited = seen,
                                      !.queue = Tail(proc.queue) \o ascending(parents \ seen),
                                      !.expanded = Append(proc.expanded, currentId)]
    /\ UNCHANGED <<missions, tasks, deps, last, tx>>

\* while (queue.length > 0) is over: the call returns.
SearchReturn ==
    /\ proc.pc = "loop"
    /\ proc.queue = << >>
    /\ proc' = [proc EXCEPT !.pc = "returned"]
    /\ UNCHANGED <<missions, tasks, deps, last, tx>>

NextSearch == SearchStart \/ SearchSkip \/ SearchExpand \/ SearchReturn

\* The call runs on: a loop iteration that can be taken is taken.
SpecSearch == InitSearch /\ [][NextSearch]_vars /\ WF_vars(NextSearch)

\* --------------------------------------------------------------- SpecLoop
\* The loop the agent guidelines prescribe, run by every agent on mission 1:
\* query the ready tasks, claim one of them, work, mark it completed.  The
\* store starts with every task pending or completed.
LoopStatus == {"pending", "completed"}

InitLoop ==
    /\ missions = AllMissions
    /\ \E st \in [RowIds -> LoopStatus] :
         tasks = [t \in RowIds |->
                    [mission_id |-> 1, status |-> st[t],
                     priority |-> DefaultPriority, assignee |-> NULL,
                     created_at |-> t, metadata |-> stringify(EmptyDoc)]]
    /\ deps \in SUBSET {[blocker_id |-> a, blocked_id |-> b, mission_id |-> 1] :
                           <<a, b>> \in {p \in RowIds \X RowIds : p[1] < p[2]}}
    /\ last = NoCall
    /\ tx = NoTx
    /\ proc = [a \in Agents |-> [pc |-> "query", task |-> 0]]

\* { "command": "query", "payload": { "view": "ready" } }: an empty answer
\* leaves the agent asking again, otherwise it picks one of the tasks.
LoopQuery(a) ==
    /\ proc[a].pc = "query"
    /\ \E n \in 1..MaxRows : \E r \in getReadyTasks(tasks, deps, 1, n) :
          /\ last' = [Call("getReadyTasks", 0, 1, 0, "", "ok", 0)
                      EXCEPT !.limit = n, !.result = r]
          /\ IF Len(r) = 0
               THEN proc' = proc
               ELSE \E i \in DOMAIN r :
                      proc' = [proc EXCEPT ![a] = [pc |-> "claim", task |-> r[i].id]]
    /\ UNCHANGED <<missions, tasks, deps, tx>>

\* CLAIM: claimTask(task, a); an agent whose claim threw queries again.
LoopClaim(a) ==
    /\ proc[a].pc = "claim"
    /\ tasks' = claimCommit(tasks, deps, proc[a].task, a)
    /\ last' = claimCall(tasks, deps, proc[a].task, a)
    /\ proc' = [proc EXCEPT ![a].pc =
                  IF claimOutcome(tasks, deps, proc[a].task, a) = "ok"
                    THEN "work" ELSE "query"]
    /\ UNCHANGED <<missions, deps, tx>>

\* UPDATE, success: updateTaskStatus(task, 'completed', summary) by the
\* holder of the task.
LoopComplete(a) ==
    /\ proc[a].pc = "work"
    /\ tasks' = storeUpdateTaskStatus(tasks, proc[a].task, "completed",
                                      targetAssignee(tasks[proc[a].task], "completed"),
                                      metadataString(tasks[proc[a].task], "done"))
    /\ last' = [Call("updateTaskStatus", proc[a].task, 0, 0, "completed", "ok", 0)
                EXCEPT !.summary = "done"]
    /\ proc' = [proc EXCEPT ![a] = [pc |-> "query", task |-> 0]]
    /\ UNCHANGED <<missions, deps, tx>>

LoopStep(a) == LoopQuery(a) \/ LoopClaim(a) \/ LoopComplete(a)

NextLoop == \E a \in Agents : LoopStep(a)

\* Every agent keeps running its loop.
SpecLoop == InitLoop /\ [][NextLoop]_vars /\ \A a \in Agents : WF_vars(LoopStep(a))

\* --------------------------------------------------------------- SpecRead
\* The three reads of the store over the rows of SpecMeta, whose metadata
\* column holds a document, SQL NULL, or text that is not JSON.
NextRead ==
    \/ \E t \in TaskIds : GetTask(t)
    \/ \E m \in MissionIds : GetTasksByMission(m)
    \/ \E m \in MissionIds, n \in Limits : GetReadyTasks(m, n)

SpecRead == InitMeta /\ [][NextRead]_vars

\* -------------------------------------------------------------- SpecScope
\* Two missions whose tasks are created and updated in any interleaving,
\* and the three views of the orchestrator asked for either mission.
InitScope ==
    /\ missions = AllMissions
    /\ tasks = << >>
    /\ deps = {}
    /\ last = NoCall
    /\ tx = NoTx
    /\ proc = Idle

NextScope ==
    \/ \E m \in MissionIds, id \in RowIds, now \in Clock(tasks) :
          CreateTask(m, id, DefaultPriority, now)
    \/ \E t \in RowIds, st \in QueryStatus : UpdateTaskStatus(t, st, NoSummary)
    \/ \E m \in MissionIds : GetReadyTasks(m, MaxRows)
    \/ \E m \in MissionIds : GetAllTasks(m)
    \/ \E m \in MissionIds : GetActiveTasks(m)

SpecScope == InitScope /\ [][NextScope]_vars

\* --------------------------------------------------------------- SpecTool
\* The mission_control handler driven by agents, in the store the tool's
\* tests start from: the mission of the working directory exists.  Payloads
\* carry every field of their command or leave one out.
ToolStatus == {"pending", "in_progress", "completed", "failed"}
CreatePayloads ==
    {[title |-> "T"], [priority |-> 1]}
      \cup {[title |-> "T", priority |-> p] : p \in {0, 1, 5}}
UpdatePayloads ==
    {[task_id |-> t] : t \in TaskIds}
      \cup {[task_id |-> t, status |-> st] : t \in TaskIds, st \in ToolStatus}
LinkPayloads ==
    {[task_id |-> t] : t \in TaskIds}
      \cup {[task_id |-> a, target_task_id |-> b] : a \in TaskIds, b \in TaskIds}
ClaimPayloads ==
    {[task_id |-> t] : t \in TaskIds}
      \cup {[task_id |-> t, agent_id |-> g] : t \in TaskIds, g \in Agents}
QueryPayloads ==
    {EmptyDoc} \cup {[view |-> v] : v \in {"ready", "all", "active"}}
      \cup {[view |-> "ready", limit |-> n] : n \in {0, 1}}

NextTool ==
    \/ \E payload \in CreatePayloads, id \in TaskIds, now \in Clock(tasks) :
          ToolCreate(payload, id, now)
    \/ \E payload \in UpdatePayloads : ToolUpdate(payload)
    \/ \E payload \in LinkPayloads : ToolLink(payload)
    \/ \E payload \in ClaimPayloads : ToolClaim(payload)
    \/ \E payload \in QueryPayloads : ToolQuery(payload)

SpecTool == InitScope /\ [][NextTool]_vars

\* --------------------------------------------------------------- SpecLink
\* Concurrent linkTasks calls over MaxRows pending tasks of one mission that
\* a chain of dependencies may already join.  Every caller runs the callback
\* of linkTasks in runTransaction: the lookups and the cycle check, then
\* addDependency.
ChainEdges ==
    {[blocker_id |-> a, blocked_id |-> a + 1, mission_id |-> 1] : a \in 1..(MaxRows - 1)}

InitLink ==
    /\ missions = AllMissions
    /\ tasks = [t \in RowIds |->
                  [mission_id |-> 1, status |-> "pending",
                   priority |-> DefaultPriority, assignee |-> NULL,
                   created_at |-> t, metadata |-> stringify(EmptyDoc)]]
    /\ deps \in SUBSET ChainEdges
    /\ last = NoCall
    /\ tx = NoTx
    /\ \E blocker \in [Racers -> RowIds], blocked \in [Racers -> RowIds] :
         proc = [a \in Racers |->
                   [task |-> blocker[a], other |-> blocked[a], pc |-> "ready",
                    outcome |-> "", owner |-> 0]]

txFreeAlways(p) == TRUE

\* db.transaction(callback)() runs BEGIN, the callback and COMMIT in one
\* synchronous call: no other transaction of the store runs between them.
txFree(p) == \A b \in DOMAIN p : p[b].pc # "write"

\* BEGIN, and the callback up to its last check.
LinkRead(a) ==
    /\ proc[a].pc = "ready"
    /\ txFree(proc)
    /\ LET out == linkOutcome(tasks, deps, proc[a].task, proc[a].other) IN
         proc' = [proc EXCEPT ![a].pc = IF out = "ok" THEN "write" ELSE "done",
                              ![a].outcome = out]
    /\ UNCHANGED <<missions, tasks, deps, last, tx>>

\* addDependency and COMMIT.
LinkWrite(a) ==
    /\ proc[a].pc = "write"
    /\ deps' = deps \cup {newDependency(tasks, proc[a].task, proc[a].other)}
    /\ proc' = [proc EXCEPT ![a].pc = "done"]
    /\ last' = Call("linkTasks", proc[a].task, proc[a].other, 0, "", "ok", 0)
    /\ UNCHANGED <<missions, tasks, tx>>

NextLink == \E a \in Racers : LinkRead(a) \/ LinkWrite(a)

SpecLink == InitLink /\ [][NextLink]_vars

\* --------------------------------------------------------------- SpecLost
\* Concurrent claimTask and updateTaskStatus calls, by callers that share the
\* store, on pending tasks nobody holds.  claimTask is one store transaction.
\* updateTaskStatus calls no runTransaction: its getTask and its
\* store.updateTaskStatus are two statements of the caller, and what another
\* caller commits between them is in the store when the second one runs.
LostCalls ==
    {[op |-> "claim", task |-> t, status |-> "", summary |-> NoSummary] : t \in TaskIds}
      \cup {[op |-> "update", task |-> t, status |-> st, summary |-> r] :
                t \in TaskIds, st \in QueryStatus, r \in {NoSummary, "done"}}

InitLost ==
    /\ missions = AllMissions
    /\ tasks = [t \in TaskIds |->
                  [mission_id |-> 1, status |-> "pending",
                   priority |-> DefaultPriority, assignee |-> NULL,
                   created_at |-> t, metadata |-> stringify(EmptyDoc)]]
    /\ deps = {}
    /\ last = NoCall
    /\ tx = NoTx
    /\ \E call \in [Racers -> LostCalls] :
         proc = [a \in Racers |->
                   [call |-> call[a], pc |-> "ready", outcome |-> "",
                    read |-> tasks[call[a].task]]]

\* claimTask(task, a): the whole callback in its transaction.
LostClaim(a) ==
    /\ proc[a].pc = "ready"
    /\ proc[a].call.op = "claim"
    /\ tasks' = claimCommit(tasks, deps, proc[a].call.task, a)
    /\ last' = claimCall(tasks, deps, proc[a].call.task, a)
    /\ proc' = [proc EXCEPT ![a].pc = "done",
                            ![a].outcome = claimOutcome(tasks, deps, proc[a].call.task, a)]
    /\ UNCHANGED <<missions, deps, tx>>

\* const task = this.store.getTask(taskId)
UpdateRead(a) ==
    /\ proc[a].pc = "ready"
    /\ proc[a].call.op = "update"
    /\ proc' = [proc EXCEPT ![a].pc = "write", ![a].read = tasks[proc[a].call.task]]
    /\ UNCHANGED <<missions, tasks, deps, last, tx>>

\* targetAssignee and the merged metadata come from the task that was read;
\* this.store.updateTaskStatus(taskId, status, targetAssignee, updatedMetadata)
UpdateWrite(a) ==
    /\ proc[a].pc = "write"
    /\ tasks' = storeUpdateTaskStatus(tasks, proc[a].call.task, proc[a].call.status,
                                      targetAssignee(proc[a].read, proc[a].call.status),
                                      metadataString(proc[a].read, proc[a].call.summary))
    /\ last' = [Call("updateTaskStatus", proc[a].call.task, 0, 0, proc[a].call.status,
                     "ok", 0)
                EXCEPT !.summary = proc[a].call.summary]
    /\ proc' = [proc EXCEPT ![a].pc = "done", ![a].outcome = "ok"]
    /\ UNCHANGED <<missions, deps, tx>>

NextLost == \E a \in Racers : LostClaim(a) \/ UpdateRead(a) \/ UpdateWrite(a)

SpecLost == InitLost /\ [][NextLost]_vars

\* ------------------------------------------------------------- SpecCreate
\* createMission and createTask alone, from the empty store: callers repeat
\* mission ids with another title, name missions that do not exist and pass
\* priorities on both sides of the range of TaskPrioritySchema.
Titles == {"Project 1", "Duplicate"}
Priorities == -1..5

NextCreate ==
    \/ \E id \in MissionIds, title \in Titles, now \in Clock(missions) :
          CreateMission(id, title, now)
    \/ \E m \in MissionIds, id \in TaskIds, p \in Priorities, now \in Clock(tasks) :
          CreateTask(m, id, p, now)

SpecCreate == Init /\ [][NextCreate]_vars

\* ====================================================== properties checked
\* Helpers of the properties, written without the operators above.
Edge(ds, a, b) == \E d \in ds : d.blocker_id = a /\ d.blocked_id = b

\* Kahn's peeling: a relation is acyclic iff removing, again and again, the
\* nodes no remaining node blocks empties the node set.
RECURSIVE Peel(_, _)
Peel(nodes, ds) ==
    LET free == {n \in nodes : ~\E m \in nodes : Edge(ds, m, n)}
    IN IF nodes = {} THEN TRUE
       ELSE IF free = {} THEN FALSE
       ELSE Peel(nodes \ free, ds)

Acyclic(ds) == Peel({d.blocker_id : d \in ds} \cup {d.blocked_id : d \in ds}, ds)

\* found, and the tasks its members block directly or through others.
RECURSIVE Downstream(_, _)
Downstream(ds, found) ==
    LET more == {d.blocked_id : d \in {e \in ds : e.blocker_id \in found}}
    IN IF more \subseteq found THEN found ELSE Downstream(ds, found \cup more)

\* x blocks y, directly or through others.
PathFrom(ds, x, y) == \E z \in Downstream(ds, {x}) : Edge(ds, z, y)

AllBlockersCompleted(ts, ds, t) ==
    \A d \in ds : d.blocked_id = t => ts[d.blocker_id].status = "completed"

RacersOn(t) == {a \in Racers : proc[a].task = t}

Winners(t) == {a \in RacersOn(t) : proc[a].pc = "done" /\ proc[a].outcome = "ok"}

AllDone(t) == \A a \in RacersOn(t) : proc[a].pc = "done"

OneWinsOthersLocked(t) ==
    \E w \in RacersOn(t) :
        /\ proc[w].outcome = "ok"
        /\ tasks[t].status = "in_progress"
        /\ tasks[t].assignee = w
        /\ \A a \in RacersOn(t) \ {w} :
              proc[a].outcome = "TaskLockedError" /\ proc[a].owner = w

\* C1 as stated: of N >= 2 concurrent claimTask calls on one unclaimed and
\* unblocked task, each one transaction, exactly one succeeds, the task ends
\* in_progress with the winner as assignee, and every other call fails with
\* TaskLockedError naming the winner.  (Every task of InitRace is unclaimed.)
C1_ClaimExclusivity ==
    \A t \in DOMAIN tasks :
        (Cardinality(RacersOn(t)) >= 2 /\ AllDone(t) /\ AllBlockersCompleted(tasks, deps, t))
            => OneWinsOthersLocked(t)

\* C1 amended: the same for an unclaimed, unblocked task that is not completed.
C1_ClaimExclusivityNotCompleted ==
    \A t \in DOMAIN tasks :
        (/\ Cardinality(RacersOn(t)) >= 2
         /\ AllDone(t)
         /\ AllBlockersCompleted(tasks, deps, t)
         /\ tasks[t].status # "completed")
            => OneWinsOthersLocked(t)

C1_Witness ==
    \E t \in DOMAIN tasks :
        /\ RacersOn(t) = Racers
        /\ AllDone(t)
        /\ Cardinality(Winners(t)) = 1
        /\ \E d \in deps : d.blocked_id = t

C3_Acyclic == Acyclic(deps)

C3_Witness ==
    /\ last.op = "linkTasks"
    /\ last.outcome = "CycleDetectedError"
    /\ last.task # last.other
    /\ Edge(deps, last.other, last.task)

\* C4: linkTasks(A, B) for same-mission tasks where B already blocks A,
\* directly or transitively, fails with CycleDetectedError and leaves the
\* dependency set as it was; so does linkTasks(D, A) on a chain A->B->C->D.
C4_CycleRejected ==
    [][(/\ last'.op = "linkTasks"
        /\ last'.task \in DOMAIN tasks
        /\ last'.other \in DOMAIN tasks
        /\ tasks[last'.task].mission_id = tasks[last'.other].mission_id
        /\ PathFrom(deps, last'.other, last'.task))
       => (last'.outcome = "CycleDetectedError" /\ deps' = deps)]_vars

C4_Witness ==
    /\ last.op = "linkTasks"
    /\ last.outcome = "CycleDetectedError"
    /\ \E b \in DOMAIN tasks, c \in DOMAIN tasks :
          /\ Cardinality({last.other, b, c, last.task}) = 4
          /\ Edge(deps, last.other, b)
          /\ Edge(deps, b, c)
          /\ Edge(deps, c, last.task)
          /\ Cardinality(deps) = 3

\* C5: linkTasks(X, X) on a task X fails with CycleDetectedError and adds no
\* edge, whatever edges exist, none included.
C5_SelfLoopRejected ==
    [][(/\ last'.op = "linkTasks"
        /\ last'.task = last'.other
        /\ last'.task \in DOMAIN tasks)
       => (last'.outcome = "CycleDetectedError" /\ deps' = deps)]_vars

C5_Witness ==
    /\ last.op = "linkTasks"
    /\ last.task = last.other
    /\ last.task \in DOMAIN tasks
    /\ last.outcome = "CycleDetectedError"
    /\ deps = {}

\* C6: linkTasks(A, B) on existing tasks of different missions fails with
\* InvalidOperationError and creates no edge, whatever edges exist.
C6_MissionIsolation ==
    [][(/\ last'.op = "linkTasks"
        /\ last'.task \in DOMAIN tasks
        /\ last'.other \in DOMAIN tasks
        /\ tasks[last'.task].mission_id # tasks[last'.other].mission_id)
       => (last'.outcome = "InvalidOperationError" /\ deps' = deps)]_vars

C6_Witness ==
    /\ last.op = "linkTasks"
    /\ last.outcome = "InvalidOperationError"
    /\ tasks[last.task].mission_id # tasks[last.other].mission_id
    /\ \E d \in deps : last.task \in {d.blocker_id, d.blocked_id}
    /\ \E d \in deps : last.other \in {d.blocker_id, d.blocked_id}

\* C7 as stated: while agent A holds task T, claimTask(T, B) by another
\* agent B fails with TaskLockedError naming A, and T is left unchanged.
C7_LockHolderReported ==
    [][(/\ last'.op = "claimTask"
        /\ last'.task \in DOMAIN tasks
        /\ tasks[last'.task].assignee \notin {NULL, last'.agent})
       => (/\ last'.outcome = "TaskLockedError"
           /\ last'.owner = tasks[last'.task].assignee
           /\ tasks' = tasks)]_vars

\* C7 amended: while agent A holds task T, claimTask(T, B) by another agent B
\* fails and leaves T unchanged; it fails with TaskLockedError naming A when
\* every direct blocker of T is completed, and with InvalidOperationError
\* when one is not.
C7_LockHolderReportedUnlessBlocked ==
    [][(/\ last'.op = "claimTask"
        /\ last'.task \in DOMAIN tasks
        /\ tasks[last'.task].assignee \notin {NULL, last'.agent})
       => (/\ tasks' = tasks
           /\ IF AllBlockersCompleted(tasks, deps, last'.task)
                THEN /\ last'.outcome = "TaskLockedError"
                     /\ last'.owner = tasks[last'.task].assignee
                ELSE last'.outcome = "InvalidOperationError")]_vars

C7_Witness ==
    /\ last.op = "claimTask"
    /\ last.outcome = "TaskLockedError"
    /\ last.owner # NULL
    /\ last.owner # last.agent
    /\ tasks[last.task].assignee = last.owner
    /\ tasks[last.task].status = "in_progress"

\* C8: claimTask(T, agent) fails with InvalidOperationError whenever a direct
\* blocker of T is not completed, whoever the agent and whatever T's status
\* and assignee, and T is left unchanged.
C8_BlockedClaimRejected ==
    [][(/\ last'.op = "claimTask"
        /\ last'.task \in DOMAIN tasks
        /\ ~AllBlockersCompleted(tasks, deps, last'.task))
       => (last'.outcome = "InvalidOperationError" /\ tasks' = tasks)]_vars

C8_Witness ==
    /\ last.op = "claimTask"
    /\ last.outcome = "InvalidOperationError"
    /\ ~AllBlockersCompleted(tasks, deps, last.task)
    /\ tasks[last.task].assignee \notin {NULL, last.agent}
    /\ tasks[last.task].status = "in_progress"

BecomesInProgress(t) ==
    /\ t \in DOMAIN tasks
    /\ tasks[t].status # "in_progress"
    /\ tasks'[t].status = "in_progress"

\* C9 as stated: whenever any operation changes a task's status to
\* in_progress, every direct blocker of the task is completed.
C9_StartOnlyWhenUnblocked ==
    [][\A t \in DOMAIN tasks' :
          BecomesInProgress(t) => AllBlockersCompleted(tasks, deps, t)]_vars

\* C9 amended: whenever claimTask changes a task's status to in_progress,
\* every direct blocker of the task is completed.
C9_ClaimStartsOnlyWhenUnblocked ==
    [][\A t \in DOMAIN tasks' :
          (BecomesInProgress(t) /\ last'.op = "claimTask")
              => AllBlockersCompleted(tasks, deps, t)]_vars

C9_Witness ==
    /\ last.op = "claimTask"
    /\ last.outcome = "ok"
    /\ tasks[last.task].status = "in_progress"
    /\ \E d \in deps : d.blocked_id = last.task
    /\ AllBlockersCompleted(tasks, deps, last.task)

\* C10 as stated: a task has an assignee only while its status is in_progress.
C10_AssigneeOnlyInProgress ==
    \A t \in DOMAIN tasks :
        tasks[t].assignee # NULL => tasks[t].status = "in_progress"

\* C10 amended: a task whose status is pending or ready has no assignee.
C10_NoAssigneeWhenPendingOrReady ==
    \A t \in DOMAIN tasks :
        tasks[t].status \in {"pending", "ready"} => tasks[t].assignee = NULL

C10_Witness ==
    /\ last.op = "updateTaskStatus"
    /\ last.outcome = "ok"
    /\ last.status = "ready"
    /\ tasks[last.task].assignee = NULL
    /\ \E t \in DOMAIN tasks : tasks[t].status = "completed" /\ tasks[t].assignee # NULL

\* The ids of a returned list, as a set and in order.
Ids(result) == {result[i].id : i \in DOMAIN result}

\* Task t is pending and none of its direct blockers is in a status other
\* than completed.
PendingAndUnblocked(ts, ds, t) ==
    /\ ts[t].status = "pending"
    /\ \A b \in DOMAIN ts : Edge(ds, b, t) => ts[b].status = "completed"

TasksOf(ts, m) == {t \in DOMAIN ts : ts[t].mission_id = m}

\* C11: getReadyTasks(M, limit) with a limit not smaller than the number of
\* M's tasks returns exactly the tasks of M that are pending and have no
\* direct blocker in a status other than completed; at any limit, a pending
\* task with a non-completed blocker is not returned.
C11_ReadyExactly ==
    last.op = "getReadyTasks" =>
        /\ last.limit >= Cardinality(TasksOf(tasks, last.other))
              => Ids(last.result) = {t \in TasksOf(tasks, last.other) :
                                        PendingAndUnblocked(tasks, deps, t)}
        /\ \A t \in Ids(last.result) : PendingAndUnblocked(tasks, deps, t)

C11_Witness ==
    /\ last.op = "getReadyTasks"
    /\ last.limit >= Cardinality(TasksOf(tasks, last.other))
    /\ \E t \in Ids(last.result) : \E b \in DOMAIN tasks : Edge(deps, b, t)
    /\ \E t \in TasksOf(tasks, last.other) :
          /\ tasks[t].status = "pending"
          /\ t \notin Ids(last.result)

\* a does not rank after b: lower priority number, or the same priority and
\* not created later.
RankLE(ts, a, b) ==
    \/ ts[a].priority < ts[b].priority
    \/ ts[a].priority = ts[b].priority /\ ts[a].created_at <= ts[b].created_at

\* The returned list holds distinct ready tasks in rank order, and no ready
\* task left out ranks strictly before a returned one.
SortedPrefix(ts, ds, m, result) ==
    /\ \A i \in DOMAIN result : /\ result[i].id \in TasksOf(ts, m)
                                 /\ PendingAndUnblocked(ts, ds, result[i].id)
    /\ \A i \in DOMAIN result, j \in DOMAIN result :
          i < j => /\ result[i].id # result[j].id
                   /\ RankLE(ts, result[i].id, result[j].id)
    /\ \A t \in TasksOf(ts, m) :
          (PendingAndUnblocked(ts, ds, t) /\ t \notin Ids(result))
              => \A i \in DOMAIN result : RankLE(ts, result[i].id, t)

\* C12 as stated: the list getReadyTasks(M, limit) returns is sorted by
\* ascending priority, ties broken by ascending created_at, has at most limit
\* elements, and is a prefix of the fully sorted ready list.
C12_SortedPrefixAtMostLimit ==
    last.op = "getReadyTasks" =>
        /\ SortedPrefix(tasks, deps, last.other, last.result)
        /\ Len(last.result) <= last.limit

\* C12 amended: the list is sorted and a prefix of the fully sorted ready
\* list at every limit; it has at most limit elements when limit >= 0, and it
\* is the whole sorted ready list when limit is negative.
C12_SortedPrefixNonNegativeLimit ==
    last.op = "getReadyTasks" =>
        /\ SortedPrefix(tasks, deps, last.other, last.result)
        /\ last.limit >= 0 => Len(last.result) <= last.limit
        /\ last.limit < 0 =>
              Ids(last.result) = {t \in TasksOf(tasks, last.other) :
                                     PendingAndUnblocked(tasks, deps, t)}

C12_Witness ==
    /\ last.op = "getReadyTasks"
    /\ last.limit = 2
    /\ Len(last.result) = 2
    /\ tasks[last.result[1].id].priority = tasks[last.result[2].id].priority
    /\ tasks[last.result[1].id].created_at < tasks[last.result[2].id].created_at
    /\ last.result[1].id > last.result[2].id
    /\ \E t \in TasksOf(tasks, last.other) :
          /\ PendingAndUnblocked(tasks, deps, t)
          /\ t \notin Ids(last.result)

\* In store (ts, ds), A is a direct blocker of pending task B, A is not
\* completed, and every other direct blocker of B is.
OnlyOpenBlocker(ts, ds, A, B) ==
    /\ ts[B].status = "pending"
    /\ Edge(ds, A, B)
    /\ ts[A].status # "completed"
    /\ \A b \in DOMAIN ts \ {A} : Edge(ds, b, B) => ts[b].status = "completed"

\* Every list getReadyTasks can return for B's mission, at a limit no smaller
\* than the number of tasks, holds B.
Returned(ts, ds, B) ==
    \A r \in getReadyTasks(ts, ds, ts[B].mission_id, Cardinality(DOMAIN ts)) :
        B \in Ids(r)

\* No list getReadyTasks can return for B's mission holds B, at any limit.
NeverReturned(ts, ds, B) ==
    \A n \in Limits : \A r \in getReadyTasks(ts, ds, ts[B].mission_id, n) :
        B \notin Ids(r)

\* C13: if pending task B has A as its only non-completed direct blocker,
\* then before updateTaskStatus(A, completed) getReadyTasks does not return B
\* and claimTask(B, agent) is rejected as blocked, and after it getReadyTasks
\* returns B (limit permitting) and claimTask(B, agent) succeeds.
C13_CompletionUnblocks ==
    [][(/\ last'.op = "updateTaskStatus"
        /\ last'.outcome = "ok"
        /\ last'.status = "completed")
       => \A B \in DOMAIN tasks :
             OnlyOpenBlocker(tasks, deps, last'.task, B)
                => /\ NeverReturned(tasks, deps, B)
                   /\ \A g \in Agents :
                         claimOutcome(tasks, deps, B, g) = "InvalidOperationError"
                   /\ Returned(tasks', deps', B)
                   /\ \A g \in Agents : claimOutcome(tasks', deps', B, g) = "ok"]_vars

\* An agent claimed blocker A and completed it; B, pending, has A and one
\* more blocker, both completed now.
C13_Witness ==
    /\ last.op = "updateTaskStatus"
    /\ last.outcome = "ok"
    /\ last.status = "completed"
    /\ tasks[last.task].assignee # NULL
    /\ \E B \in DOMAIN tasks :
          /\ tasks[B].status = "pending"
          /\ Edge(deps, last.task, B)
          /\ Cardinality({d \in deps : d.blocked_id = B}) = 2
          /\ \A d \in deps : d.blocked_id = B => tasks[d.blocker_id].status = "completed"

\* C14: in every reachable state, both endpoints of every dependency edge
\* are existing tasks of one mission, and that mission is the edge's own
\* mission_id.
C14_ReferentialIntegrity ==
    \A d \in deps :
        /\ d.blocker_id \in DOMAIN tasks
        /\ d.blocked_id \in DOMAIN tasks
        /\ tasks[d.blocker_id].mission_id = d.mission_id
        /\ tasks[d.blocked_id].mission_id = d.mission_id

C14_Witness ==
    /\ last.op = "linkTasks"
    /\ last.outcome = "ok"
    /\ \E d \in deps : /\ d.blocker_id = last.task
                        /\ d.blocked_id = last.other
                        /\ d.mission_id = 2
                        /\ tasks[last.task].status = "completed"
                        /\ tasks[last.other].assignee # NULL

\* C15: updateTaskStatus(T, s) on a task T sets T's assignee to null when s
\* is pending or ready, whatever T's status and assignee were, and leaves the
\* assignee as it was for every other s.
C15_ReleaseOnPendingOrReady ==
    [][(last'.op = "updateTaskStatus" /\ last'.task \in DOMAIN tasks)
       => /\ last'.outcome = "ok"
          /\ tasks'[last'.task].status = last'.status
          /\ tasks'[last'.task].assignee =
                IF last'.status \in {"pending", "ready"}
                  THEN NULL
                  ELSE tasks[last'.task].assignee]_vars

\* A held task was moved to review, and its holder is still its assignee.
C15_Witness ==
    /\ last.op = "updateTaskStatus"
    /\ last.outcome = "ok"
    /\ last.status = "review"
    /\ tasks[last.task].status = "review"
    /\ tasks[last.task].assignee # NULL

\* The claim addressed a task that was in_progress and held by the claimant.
ReclaimByHolder(call) ==
    /\ call.op = "claimTask"
    /\ call.task \in DOMAIN tasks
    /\ call.was = "in_progress"
    /\ call.held = call.agent

\* C16 as stated: claimTask(T, A) on a task that is in_progress with
\* assignee A succeeds and leaves T's status, assignee and metadata as they
\* were.
C16_ReclaimSucceeds ==
    [][ReclaimByHolder(last') => (last'.outcome = "ok" /\ tasks' = tasks)]_vars

\* C16 amended: claimTask(T, A) on a task that is in_progress with assignee A
\* leaves T's status, assignee and metadata as they were; it succeeds when
\* every direct blocker of T is completed and fails with
\* InvalidOperationError when one is not.
C16_ReclaimSucceedsUnlessBlocked ==
    [][ReclaimByHolder(last')
       => /\ tasks' = tasks
          /\ last'.outcome = IF AllBlockersCompleted(tasks, deps, last'.task)
                               THEN "ok" ELSE "InvalidOperationError"]_vars

C16_Witness ==
    /\ last.op = "claimTask"
    /\ last.outcome = "ok"
    /\ last.was = "in_progress"
    /\ last.held = last.agent
    /\ tasks[last.task].status = "in_progress"
    /\ tasks[last.task].assignee = last.agent
    /\ tasks[last.task].metadata.kind = "json"
    /\ DOMAIN tasks[last.task].metadata.doc = MetaKeys
    /\ tasks[last.task].metadata.doc["result_summary"] = "done"

\* C17: claimTask on a completed task never succeeds and never changes the
\* task; when the task's blockers are all completed and its assignee is null
\* or the claimant, the failure is InvalidOperationError.
C17_CompletedNotClaimable ==
    [][(/\ last'.op = "claimTask"
        /\ last'.task \in DOMAIN tasks
        /\ tasks[last'.task].status = "completed")
       => /\ last'.outcome # "ok"
          /\ tasks' = tasks
          /\ (/\ AllBlockersCompleted(tasks, deps, last'.task)
               /\ tasks[last'.task].assignee \in {NULL, last'.agent})
                => last'.outcome = "InvalidOperationError"]_vars

\* The agent that completed the task claims it again; its blocker is
\* completed too.
C17_Witness ==
    /\ last.op = "claimTask"
    /\ last.outcome = "InvalidOperationError"
    /\ last.was = "completed"
    /\ last.held = last.agent
    /\ tasks[last.task].status = "completed"
    /\ tasks[last.task].assignee = last.agent
    /\ \E d \in deps : d.blocked_id = last.task
    /\ AllBlockersCompleted(tasks, deps, last.task)

\* The document getTask returns for a stored column.
Parsed(column) == IF column.kind = "json" THEN column.doc ELSE EmptyDoc

\* The stored metadata of task t is a document that holds summary under
\* result_summary and every other key and value the task had in ts.
SummaryMerged(ts, t, summary) ==
    /\ tasks'[t].metadata.kind = "json"
    /\ DOMAIN tasks'[t].metadata.doc = DOMAIN Parsed(ts[t].metadata) \cup {"result_summary"}
    /\ tasks'[t].metadata.doc["result_summary"] = summary
    /\ \A k \in DOMAIN Parsed(ts[t].metadata) \ {"result_summary"} :
          tasks'[t].metadata.doc[k] = Parsed(ts[t].metadata)[k]

MetadataUnchanged == \A t \in DOMAIN tasks : tasks'[t].metadata = tasks[t].metadata

\* C18: updateTaskStatus with a resultSummary sets the key result_summary in
\* the task's metadata and keeps every other key and value; updateTaskStatus
\* without a resultSummary, and claimTask, leave the stored metadata
\* unchanged.
C18_MetadataPreserved ==
    [][/\ (last'.op = "updateTaskStatus" /\ last'.task \in DOMAIN tasks)
           => IF last'.summary # NoSummary
                THEN SummaryMerged(tasks, last'.task, last'.summary)
                ELSE MetadataUnchanged
       /\ last'.op = "claimTask" => MetadataUnchanged]_vars

\* What holds instead: the same for a resultSummary other than the empty
\* string; with the empty string the stored metadata stays as it was.
C18_MetadataPreservedNonEmptySummary ==
    [][/\ (last'.op = "updateTaskStatus" /\ last'.task \in DOMAIN tasks)
           => IF last'.summary \notin {NoSummary, ""}
                THEN SummaryMerged(tasks, last'.task, last'.summary)
                ELSE MetadataUnchanged
       /\ last'.op = "claimTask" => MetadataUnchanged]_vars

C20_DetectorsAgree ==
    (last.op = "validateNoCycle" /\ Acyclic(deps))
        => (last.result[1] <=> last.outcome = "CycleDetectedError")

\* Both detectors report the cycle the edge would close through two other
\* tasks, on a relation that also holds an edge off that path.
C20_Witness ==
    /\ last.op = "validateNoCycle"
    /\ last.outcome = "CycleDetectedError"
    /\ last.result[1]
    /\ ~Edge(deps, last.other, last.task)
    /\ \E b \in DOMAIN tasks, c \in DOMAIN tasks :
          /\ Cardinality({last.other, b, c, last.task}) = 4
          /\ Edge(deps, last.other, b)
          /\ Edge(deps, b, c)
          /\ Edge(deps, c, last.task)
          /\ ~Edge(deps, b, last.task)
          /\ Edge(deps, last.other, c)

\* ------------------------------------------------------------------- C21
\* C21: createMission on an id that already has a mission fails with
\* InvalidOperationError and leaves the missions table as it was (title,
\* status and created_at of the existing mission included); a createMission
\* that succeeds adds a row for a new id and changes no other row.
C21_DuplicateMissionRejected ==
    [][ last'.op = "createMission" =>
          IF last'.other \in DOMAIN missions
            THEN /\ last'.outcome = "InvalidOperationError"
                 /\ missions' = missions
            ELSE /\ last'.outcome = "ok"
                 /\ DOMAIN missions' = DOMAIN missions \cup {last'.other}
                 /\ \A m \in DOMAIN missions : missions'[m] = missions[m] ]_vars

\* A duplicate createMission was rejected while the other mission also
\* exists, under a title the duplicate call may not have carried.
C21_Witness ==
    /\ last.op = "createMission"
    /\ last.outcome = "InvalidOperationError"
    /\ DOMAIN missions = MissionIds
    /\ missions[last.other].title = "Project 1"
    /\ \E m \in MissionIds : missions[m].title = "Duplicate"

\* ------------------------------------------------------------------- C22
MissionOfEveryTask == \A t \in DOMAIN tasks : tasks[t].mission_id \in DOMAIN missions

\* C22: in every reachable state every task's mission_id names an existing
\* mission, and createTask with a mission id that no mission has fails with
\* MissionNotFoundError and persists no task.
C22_TasksBelongToMission ==
    /\ []MissionOfEveryTask
    /\ [][ last'.op = "createTask" /\ last'.other \notin DOMAIN missions =>
             /\ last'.outcome = "MissionNotFoundError"
             /\ tasks' = tasks ]_vars

\* C22 as the code has it: the priority is validated before the mission is
\* looked up, so the call fails with MissionNotFoundError when its priority
\* is valid, and with the validation error otherwise; no task is persisted
\* in either case.
C22_TasksBelongToMissionValidPriority ==
    /\ []MissionOfEveryTask
    /\ [][ last'.op = "createTask" /\ last'.other \notin DOMAIN missions =>
             /\ last'.outcome = IF validPriority(last'.priority)
                                  THEN "MissionNotFoundError" ELSE "ZodError"
             /\ tasks' = tasks ]_vars

\* createTask failed on a missing mission while another mission has a task.
C22_Witness ==
    /\ last.op = "createTask"
    /\ last.outcome = "MissionNotFoundError"
    /\ last.other \notin DOMAIN missions
    /\ tasks # << >>

C24_UnknownTaskRejected ==
    [][ /\ last'.op \in {"claimTask", "updateTaskStatus"} /\ last'.task \notin DOMAIN tasks
             => /\ last'.outcome = "TaskNotFoundError"
                /\ last'.named = last'.task
                /\ tasks' = tasks /\ deps' = deps
        /\ last'.op = "linkTasks" /\ {last'.task, last'.other} \ DOMAIN tasks # {}
             => /\ last'.outcome = "TaskNotFoundError"
                /\ last'.named \in {last'.task, last'.other} \ DOMAIN tasks
                /\ tasks' = tasks /\ deps' = deps ]_vars

\* linkTasks found its blocker, which somebody holds, and not its blocked
\* task: the error names the blocked id.
C24_Witness ==
    /\ last.op = "linkTasks"
    /\ last.outcome = "TaskNotFoundError"
    /\ last.task \in DOMAIN tasks
    /\ tasks[last.task].assignee # NULL
    /\ last.named = last.other
    /\ last.other \notin DOMAIN tasks

\* ------------------------------------------------------------------- C25
\* The stored task of every entry of a result, with the document of its own
\* column, or the empty document when the column is not JSON.
OwnMetadata(result) ==
    \A i \in DOMAIN result :
        /\ result[i].id \in DOMAIN tasks
        /\ result[i].metadata = IF tasks[result[i].id].metadata.kind = "json"
                                  THEN tasks[result[i].id].metadata.doc
                                  ELSE EmptyDoc

OnlyTasksOf(result, m) ==
    \A i \in DOMAIN result :
        /\ result[i].mission_id = m
        /\ result[i].id \in TasksOf(tasks, m)

\* The mission of the task a createTask or updateTaskStatus step wrote.
WrittenMission ==
    IF last'.op = "createTask" THEN last'.other ELSE tasks[last'.task].mission_id

\* C26: getReadyTasks, getAllTasks and getActiveTasks for mission M return
\* only tasks of M; getAllTasks returns every task of M once, getActiveTasks
\* exactly the tasks of M that are in_progress; and a createTask or
\* updateTaskStatus on a task of another mission leaves what each of the
\* three views can return for M as it was.
C26_ViewsScopedByMission ==
    /\ [](last.op \in {"getReadyTasks", "getAllTasks", "getActiveTasks"} =>
            /\ OnlyTasksOf(last.result, last.other)
            /\ Len(last.result) = Cardinality(Ids(last.result))
            /\ last.op = "getAllTasks" =>
                   Ids(last.result) = TasksOf(tasks, last.other)
            /\ last.op = "getActiveTasks" =>
                   Ids(last.result) = {t \in TasksOf(tasks, last.other) :
                                          tasks[t].status = "in_progress"})
    /\ [][ last'.op \in {"createTask", "updateTaskStatus"} /\ last'.outcome = "ok" =>
             \A M \in MissionIds \ {WrittenMission} :
                 /\ getReadyTasks(tasks', deps', M, MaxRows)
                       = getReadyTasks(tasks, deps, M, MaxRows)
                 /\ getAllTasks(tasks', M) = getAllTasks(tasks, M)
                 /\ getActiveTasks(tasks', M) = getActiveTasks(tasks, M) ]_vars

\* getActiveTasks returned the one task in progress of a mission that has
\* a pending task too, while the other mission has a task in progress.
C26_Witness ==
    /\ last.op = "getActiveTasks"
    /\ Len(last.result) = 1
    /\ \E t \in TasksOf(tasks, last.other) : tasks[t].status = "pending"
    /\ \E t \in DOMAIN tasks :
          tasks[t].mission_id # last.other /\ tasks[t].status = "in_progress"

\* ------------------------------------------------------------------- C27
\* C27: the 'claim' command of the mission_control handler, given the
\* task_id of a task that exists, is pending, has no assignee and no open
\* blocker, succeeds and leaves the task in_progress with an assignee,
\* whether or not the payload holds an agent_id.
C27_ToolClaimSucceeds ==
    [][ /\ last'.op \in {"claim", "claimTask"}
        /\ last'.task \in DOMAIN tasks
        /\ tasks[last'.task].status = "pending"
        /\ tasks[last'.task].assignee = NULL
        /\ ~isBlocked(tasks, deps, last'.task)
        => /\ last'.outcome = "ok"
           /\ tasks'[last'.task].status = "in_progress"
           /\ tasks'[last'.task].assignee # NULL ]_vars

\* ------------------------------------------------------------------- C28
\* The links that succeeded, as edges.
Linked == {a \in Racers : proc[a].pc = "done" /\ proc[a].outcome = "ok"}

\* C28: with concurrent linkTasks calls on an acyclic graph, the edges of
\* the calls that succeeded are all stored and the stored relation has no
\* cycle, so the calls of a set that would close a cycle never all succeed;
\* and between a link's cycle check and its insert no other link inserts:
\* the check a link passed still passes when it writes.
C28_ConcurrentLinksAcyclic ==
    /\ Acyclic(deps)
    /\ \A a \in Linked : Edge(deps, proc[a].task, proc[a].other)
    /\ \A a \in Racers :
          proc[a].pc = "write" =>
              linkOutcome(tasks, deps, proc[a].task, proc[a].other) = "ok"

\* linkTasks(1, 2) and linkTasks(2, 1) ran concurrently on a graph with no
\* edge between the two: one succeeded and the other met the cycle.
C28_Witness ==
    /\ \A a \in Racers : proc[a].pc = "done"
    /\ \E a \in Racers, b \in Racers :
          /\ proc[a].task = 1 /\ proc[a].other = 2 /\ proc[a].outcome = "ok"
          /\ proc[b].task = 2 /\ proc[b].other = 1
          /\ proc[b].outcome = "CycleDetectedError"
    /\ ~Edge(deps, 2, 1)

\* ------------------------------------------------------------------- C29
\* C29: no write of another operation falls between the read and the write
\* of an updateTaskStatus, so an update to a status other than pending and
\* ready leaves the assignee the task has when the update writes (the one a
\* concurrent claimTask stored) and keeps every metadata key the task has.
C29_NoLostUpdate ==
    [][ /\ last'.op = "updateTaskStatus"
        /\ last'.outcome = "ok"
        /\ last'.status \notin {"pending", "ready"}
        => /\ tasks'[last'.task].assignee = tasks[last'.task].assignee
           /\ DOMAIN Parsed(tasks[last'.task].metadata)
                 \subseteq DOMAIN Parsed(tasks'[last'.task].metadata) ]_vars

\* ------------------------------------------------------------------- C30
\* C30: for every lookup and every pair, validateNoCycle throws
\* CycleDetectedError exactly when blocker = blocked or blocked is a direct
\* or transitive blocker of blocker under the lookup, and returns otherwise;
\* for blocker = blocked it throws without having looked anything up.
C30_ValidatorCorrect ==
    last.op = "validate" =>
        /\ last.outcome \in {"ok", "CycleDetectedError"}
        /\ last.outcome = "CycleDetectedError"
              <=> (last.task = last.other \/ PathFrom(deps, last.other, last.task))
        /\ last.task = last.other => last.result = << >>

\* The validator returned normally although the blockers it walked through
\* lie on a cycle: it looked up two ids or more and met none twice.
C30_Witness ==
    /\ last.op = "validate"
    /\ last.outcome = "ok"
    /\ Len(last.result) >= 2
    /\ \E x \in {last.result[i] : i \in DOMAIN last.result} : PathFrom(deps, x, x)

\* ------------------------------------------------------------------- C31
\* No id occurs twice in the sequence.
NoRepeat(ids) == \A i \in DOMAIN ids, j \in DOMAIN ids : i # j => ids[i] # ids[j]

\* C31: for every finite direct-blockers relation, cyclic ones included,
\* validateNoCycle looks up the blockers of each id at most once, and the
\* call ends: it throws or it returns.
C31_ValidatorTerminates ==
    /\ [](NoRepeat(proc.expanded) /\ Len(proc.expanded) <= MaxRows)
    /\ <>(proc.pc \in {"thrown", "returned"})

\* The call returned after it had expanded every id of a relation in which
\* each id is its own transitive blocker.
C31_Witness ==
    /\ proc.pc = "returned"
    /\ Len(proc.expanded) = MaxRows
    /\ \A x \in RowIds : PathFrom(deps, x, x)
    /\ \E x \in RowIds : Edge(deps, x, proc.blockerId) /\ ~Edge(deps, proc.blockerId, x)

\* ------------------------------------------------------------------- C32
\* C32: the only status change claimTask makes is from pending to
\* in_progress; a task that is ready, review, failed or blocked is never
\* moved to in_progress by claimTask.
C32_ClaimOnlyFromPending ==
    [][ last'.op = "claimTask" /\ last'.task \in DOMAIN tasks
        /\ tasks'[last'.task].status # tasks[last'.task].status
        => /\ tasks[last'.task].status = "pending"
           /\ tasks'[last'.task].status = "in_progress" ]_vars

\* C32 as the code has it: a claimTask that succeeds leaves the task
\* in_progress, whatever status other than completed it had (pending, ready,
\* review, failed, blocked or in_progress); a claimTask that fails, and every
\* claimTask on a completed task, changes no status; no other task's status
\* changes.
C32_ClaimFromAnyButCompleted ==
    [][ last'.op = "claimTask" /\ last'.task \in DOMAIN tasks
        => /\ last'.outcome = "ok" =>
                /\ tasks[last'.task].status # "completed"
                /\ tasks'[last'.task].status = "in_progress"
           /\ last'.outcome # "ok" => tasks' = tasks
           /\ \A t \in DOMAIN tasks \ {last'.task} : tasks'[t].status = tasks[t].status ]_vars

\* An agent claimed a task that had failed, while the other task is in review.
C32_Witness ==
    /\ last.op = "claimTask"
    /\ last.outcome = "ok"
    /\ last.was = "failed"
    /\ tasks[last.task].status = "in_progress"
    /\ \E t \in DOMAIN tasks : tasks[t].status = "review"

\* ------------------------------------------------------------------- C33
OneEdgePerPair ==
    \A d \in deps, e \in deps :
        d.blocker_id = e.blocker_id /\ d.blocked_id = e.blocked_id => d = e

\* C33: the dependency set holds at most one edge per ordered pair
\* (blocker_id, blocked_id), and linkTasks(A, B) when the edge A -> B is
\* already stored fails and leaves the dependency set as it was.
C33_EdgeUniqueness ==
    /\ []OneEdgePerPair
    /\ [][ last'.op = "linkTasks" /\ Edge(deps, last'.task, last'.other)
             => /\ last'.outcome # "ok"
                /\ deps' = deps ]_vars

\* The link of a stored edge was refused by the primary key, in a graph
\* that has another edge into the same blocked task.
C33_Witness ==
    /\ last.op = "linkTasks"
    /\ last.outcome = "ConstraintError"
    /\ Edge(deps, last.task, last.other)
    /\ \E d \in deps : d.blocked_id = last.other /\ d.blocker_id # last.task

\* ------------------------------------------------------------------- C34
\* C34: no operation changes a task's assignee from one agent to another.
\* The assignee of a task changes only from null to the claimant, by a
\* claimTask of that task, or from an agent to null, by an updateTaskStatus
\* of that task to pending or ready; every other task keeps its assignee.
C34_HandOverOnlyThroughRelease ==
    [][ \A t \in DOMAIN tasks :
          tasks'[t].assignee # tasks[t].assignee =>
              \/ /\ tasks[t].assignee = NULL
                 /\ last'.op = "claimTask" /\ last'.task = t /\ last'.outcome = "ok"
                 /\ tasks'[t].assignee = last'.agent
              \/ /\ tasks'[t].assignee = NULL
                 /\ last'.op = "updateTaskStatus" /\ last'.task = t
                 /\ last'.status \in {"pending", "ready"} ]_vars

\* An agent was refused a task in review that the other agent, who had
\* claimed it, still holds.
C34_Witness ==
    /\ last.op = "claimTask"
    /\ last.outcome = "TaskLockedError"
    /\ tasks[last.task].status = "review"
    /\ tasks[last.task].assignee \in Agents \ {last.agent}
    /\ last.owner = tasks[last.task].assignee

\* ------------------------------------------------------------------- C35
\* C35: every task getReadyTasks returns can be claimed by any agent: in
\* the store the query read, claimTask on it succeeds for every agent (the
\* task is not blocked, not held by another agent and not completed).
C35_ReadyImpliesClaimable ==
    last.op = "getReadyTasks" =>
        \A i \in DOMAIN last.result, g \in Agents :
            claimOutcome(tasks, deps, last.result[i].id, g) = "ok"

\* The query returned two tasks, one of them behind a blocker, while a
\* completed task of the mission still carries the agent that claimed it.
C35_Witness ==
    /\ last.op = "getReadyTasks"
    /\ Len(last.result) = 2
    /\ \E i \in DOMAIN last.result :
          \E d \in deps : d.blocked_id = last.result[i].id
    /\ \E t \in DOMAIN tasks : tasks[t].assignee # NULL /\ tasks[t].status = "completed"

\* ------------------------------------------------------------------- C36
\* The mission has a pending task and every task of it that is not pending
\* is completed.
OnlyPendingOrCompleted(ts, m) ==
    /\ \E t \in TasksOf(ts, m) : ts[t].status = "pending"
    /\ \A t \in TasksOf(ts, m) : ts[t].status \in {"pending", "completed"}

\* C36: no dependency deadlock: in every reachable state, a mission that has
\* a pending task and whose other tasks are all completed gets at least one
\* task from getReadyTasks at every limit of at least 1.
C36_NoDependencyDeadlock ==
    \A m \in MissionIds : OnlyPendingOrCompleted(tasks, m) =>
        \A n \in 1..MaxTasks : \A r \in getReadyTasks(tasks, deps, m, n) : Len(r) >= 1

\* A mission holds a pending task behind a pending blocker (so not every
\* pending task is ready) and getReadyTasks still returns a task.
C36_Witness ==
    \E m \in MissionIds :
        /\ OnlyPendingOrCompleted(tasks, m)
        /\ \E d \in deps : /\ d.blocked_id \in TasksOf(tasks, m)
                           /\ tasks[d.blocked_id].status = "pending"
                           /\ tasks[d.blocker_id].status = "pending"
        /\ \E r \in getReadyTasks(tasks, deps, m, 1) : Len(r) = 1

\* ------------------------------------------------------------------- C37
AllCompleted == \A t \in DOMAIN tasks : tasks[t].status = "completed"

\* C37: from a store in which every task is pending or completed, agents
\* that fairly repeat the loop (claim a task getReadyTasks returned, then
\* update it to completed), with no other update or link, bring every task
\* of the mission to completed, and the tasks stay completed.
C37_MissionCompletes == <>[]AllCompleted

\* Every task is completed, two agents each completed a task they claimed,
\* and one of those tasks was behind the other.
C37_Witness ==
    /\ AllCompleted
    /\ last.op = "updateTaskStatus"
    /\ \E d \in deps :
          /\ tasks[d.blocker_id].assignee # NULL
          /\ tasks[d.blocked_id].assignee # NULL
          /\ tasks[d.blocker_id].assignee # tasks[d.blocked_id].assignee

\* ------------------------------------------------------------------- C38
\* The columns of a task row that no lifecycle operation writes.
FixedColumns(row) == <<row.mission_id, row.priority, row.created_at>>

\* C38: a claimTask or updateTaskStatus step changes at most the status,
\* the assignee and the metadata of the task it addresses: the mission,
\* priority and creation time of every task, every other task, the missions
\* and the dependency set are as before; and no step of any operation
\* removes a task, a mission or a dependency edge.
C38_LifecycleFrame ==
    [][/\ last'.op \in {"claimTask", "updateTaskStatus"} =>
            /\ missions' = missions
            /\ deps' = deps
            /\ DOMAIN tasks' = DOMAIN tasks
            /\ \A t \in DOMAIN tasks :
                  /\ FixedColumns(tasks'[t]) = FixedColumns(tasks[t])
                  /\ t # last'.task => tasks'[t] = tasks[t]
        /\ DOMAIN missions \subseteq DOMAIN missions'
        /\ DOMAIN tasks \subseteq DOMAIN tasks'
        /\ deps \subseteq deps']_vars

\* A claim has just taken a task that depends on another one, whose row
\* still carries the status and the assignee of its own claim and update.
C38_Witness ==
    /\ last.op = "claimTask"
    /\ last.outcome = "ok"
    /\ tasks[last.task].status = "in_progress"
    /\ \E d \in deps :
          /\ d.blocked_id = last.task
          /\ tasks[d.blocker_id].assignee # NULL
          /\ tasks[d.blocker_id].assignee # last.agent
          /\ tasks[d.blocker_id].status = "completed"

\* ------------------------------------------------------------------- C39
\* C39: the 'create' command of the mission_control handler stores the
\* priority its payload asks for: for every p in 0..4, a create step with
\* priority p in the payload leaves the new task with priority exactly p.
C39_ToolCreateKeepsPriority ==
    [][\A p \in 0..4, id \in TaskIds, now \in Clock(tasks) :
          ToolCreate([title |-> "T", priority |-> p], id, now) =>
              /\ id \in DOMAIN tasks'
              /\ tasks'[id].priority = p]_vars

====
